---- MODULE Spec2Model ----
(***************************************************************************)
(* A model of the two pipeline engines of the repository:                  *)
(*                                                                         *)
(*   - the tree engine, Step (src/steppy/base.py and its older form        *)
(*     src/steps/base.py): fit_transform / transform recurse through       *)
(*     input_steps and keep transformers and outputs as files under        *)
(*     exp_dir/transformers, exp_dir/tmp and exp_dir/outputs;              *)
(*   - the graph engine, MultiPipeline (src/millet/core/multipipeline.py): *)
(*     a networkx DiGraph of named steps with wiring on the edges.         *)
(*                                                                         *)
(* SpecTree and SpecGraph are the two specifications; each leaves the      *)
(* other engine's variables alone.                                         *)
(***************************************************************************)
EXTENDS Integers, Sequences, FiniteSets, TLC

VARIABLES
    engine,   \* tree: which Step class is in use, "steppy" or "steps"
    steps,    \* tree: step id -> Step object (its attributes)
    fsT,      \* tree: exp_dir/transformers: step name -> artifact
    fsTmp,    \* tree: exp_dir/tmp:          step name -> cached output
    fsOut,    \* tree: exp_dir/outputs:      step name -> saved output
    tcall,    \* tree: the last call made on a Step, with what it did
    graph,    \* graph: MultiPipeline._graph, the nodes and edges with their data
    mcall     \* graph: the last call made on the MultiPipeline, with what it did

treeVars == <<engine, steps, fsT, fsTmp, fsOut, tcall>>

graphVars == <<graph, mcall>>

vars == <<engine, steps, fsT, fsTmp, fsOut, tcall, graph, mcall>>

-----------------------------------------------------------------------------
(* Dictionaries.  A payload or a directory is a function whose DOMAIN is   *)
(* the set of its keys.  A dict whose insertion order matters is a         *)
(* sequence of <<key, value>> pairs.                                       *)

EmptyDict == [k \in {} |-> 0]

\* the element of a set of one element; The({e(x) : x \in {v}}) is e(x)
\* for the local variable x = v, v being computed once
The(S) == CHOOSE y \in S : TRUE

\* d[k] = v on a dict kept as a function
Put(d, k, v) == (k :> v) @@ d

\* the file k removed from directory d
Remove(d, k) == [x \in (DOMAIN d) \ {k} |-> d[x]]

\* d[k] = v on an insertion-ordered dict: an existing key keeps its place
OPut(od, k, v) ==
    IF \E i \in 1..Len(od) : od[i][1] = k
    THEN [i \in 1..Len(od) |-> IF od[i][1] = k THEN <<k, v>> ELSE od[i]]
    ELSE Append(od, <<k, v>>)

-----------------------------------------------------------------------------
(* The external data handed to fit_transform / transform.                  *)

Datasets == {1, 2}

\* a numpy array, known by a number
Array(n) == [array |-> n]

\* the data dictionary of the tests' setUp, one per dataset
Data(d) ==
    [input_1 |-> [features |-> Array(10 * d + 1), labels |-> Array(10 * d + 2)],
     input_2 |-> [extra_features |-> Array(10 * d + 3)],
     input_3 |-> [images |-> Array(10 * d + 4), labels |-> Array(10 * d + 5)]]

-----------------------------------------------------------------------------
(* Step objects.                                                           *)

\* Step.transformer holds a transformer object (of a class that learns
\* nothing, like Dummy, or of one that learns in fit) or another Step
Obj(id) == [kind |-> "obj", id |-> id, learns |-> FALSE]
Learner(id) == [kind |-> "obj", id |-> id, learns |-> TRUE]
Shared(sid) == [kind |-> "step", id |-> sid, learns |-> FALSE]

NoAdapter == [kind |-> "none"]

\* Step.__init__ with the defaults of its signature for the four flags, in
\* the experiment directory "exp"
Step(name, transformer, input_data, input_steps, adapter) ==
    [name |-> name,
     exp_dir |-> "exp",
     transformer |-> transformer,
     input_data |-> input_data,
     input_steps |-> input_steps,
     adapter |-> adapter,
     cache_output |-> FALSE,
     save_output |-> FALSE,
     load_saved_output |-> FALSE,
     force_fitting |-> FALSE]

\* steppy.adapter.Adapter(adapting_recipes), and the adapter dict of steps;
\* adapting_recipes is the sequence of the (name, recipe) items of the dict.
\* E(input_name, key) is the recipe ('input_name', 'key'), a tuple of two
\* strings
E(input_name, key) == [kind |-> "element", input_name |-> input_name, key |-> key]
Adapter(adapting_recipes) == [kind |-> "adapter", adapting_recipes |-> adapting_recipes]

\* the other Python values a recipe is made of: a tuple that is not a pair
\* of strings, a list, a dict (the sequence of its (key, value) items), a
\* function, a string
Tup(items) == [kind |-> "tuple", items |-> items]
Lst(items) == [kind |-> "list", items |-> items]
Dic(items) == [kind |-> "dict", pairs |-> items]
Fn(name) == [kind |-> "function", name |-> name]
Str(s) == [kind |-> "str", s |-> s]

(* The pipelines the calls are made on: steps whose inputs share a key,    *)
(* a step that takes its transformer from another step beside a chain,     *)
(* and a diamond.  A step keeps its files under its name in its own        *)
(* experiment directory; the names of a pipeline differ, so that a file    *)
(* of one of the three kinds is known by the name of its step.             *)
PCollide ==
    [a |-> Step("a", Obj("ta"), <<"input_1">>, <<>>, NoAdapter),
     m |-> Step("m", Obj("tm"), <<"input_1", "input_3">>, <<>>, NoAdapter),
     n |-> Step("n", Obj("tn"), <<"input_3">>, <<"a">>, NoAdapter)]

PShare ==
    [a |-> Step("a", Learner("ta"), <<"input_1">>, <<>>, NoAdapter),
     v |-> Step("v", Shared("a"), <<"input_3">>, <<>>, NoAdapter),
     w |-> Step("w", Obj("tw"), <<"input_2">>, <<"a">>, NoAdapter)]

PDiamond(eng) ==
    [a |-> Step("a", Obj("ta"), <<"input_1">>, <<>>, NoAdapter),
     b |-> Step("b", Obj("tb"), <<>>, <<"a">>, NoAdapter),
     c |-> Step("c", Obj("tc"), <<>>, <<"a">>, NoAdapter),
     d |-> Step("d", Obj("td"), <<>>, <<"b", "c">>,
                IF eng = "steppy"
                THEN Adapter(<< <<"X", E("b", "features")>>, <<"y", E("c", "labels")>> >>)
                ELSE NoAdapter)]

\* PShare with its first step built in an experiment directory of its own
PElsewhere == [PShare EXCEPT !.a.exp_dir = "exp2"]

Pipelines(eng) == {PCollide, PShare, PDiamond(eng), PElsewhere}

\* the settings of cache_output, save_output, load_saved_output, force_fitting
Flags(c, s, l, f) ==
    [cache_output |-> c, save_output |-> s, load_saved_output |-> l, force_fitting |-> f]

DefaultFlags == Flags(FALSE, FALSE, FALSE, FALSE)

FlagChoices ==
    {Flags(c, s, l, f) : c \in BOOLEAN, s \in BOOLEAN, l \in BOOLEAN, f \in BOOLEAN}

\* how many steps of a pipeline are built with non-default flags
MaxFlagged == 1

WithFlags(step, fl) ==
    [step EXCEPT !.cache_output = fl.cache_output,
                 !.save_output = fl.save_output,
                 !.load_saved_output = fl.load_saved_output,
                 !.force_fitting = fl.force_fitting]

-----------------------------------------------------------------------------
(* What a method call carries while it runs: the three directories, the    *)
(* Step objects (transformer_is_cached rebinds Step.transformer) and the   *)
(* log of what was done.  A call ends with a value or with an exception.   *)

\* an exception: its class, the step that raised it, the words of its
\* message, and the (key, source names) pairs the message lists
NoError == [type |-> "none", step |-> "", msg |-> <<>>, keys |-> {}]

Error(type, step, msg, keys) == [type |-> type, step |-> step, msg |-> msg, keys |-> keys]

Ok(st, out) == [st |-> st, ok |-> TRUE, out |-> out, err |-> NoError]

Raise(st, err) == [st |-> st, ok |-> FALSE, out |-> EmptyDict, err |-> err]

\* one entry of the log: what was done, by which Step (its id and name),
\* on what (a directory, a transformer object, a file), with which inputs
Ev(e, st, sid, x) ==
    [e |-> e, sid |-> sid, n |-> st.steps[sid].name, x |-> x, arg |-> <<>>]

EvArg(e, st, sid, arg) ==
    [e |-> e, sid |-> sid, n |-> st.steps[sid].name, x |-> "", arg |-> arg]

Logged(st, ev) == [st EXCEPT !.log = Append(@, ev)]

OHas(od, k) == \E i \in 1..Len(od) : od[i][1] = k

OGet(od, k) == od[CHOOSE i \in 1..Len(od) : od[i][1] = k][2]

-----------------------------------------------------------------------------
(* The transformers: transform returns its keyword arguments (Dummy,       *)
(* IdentityOperation).  BaseTransformer.save writes {}; a transformer      *)
(* that learns in fit saves what it learnt, here the arguments of the fit. *)

TransformerTransform(kwargs) == kwargs

TransformerSave(transformer, kwargs) ==
    IF transformer.learns THEN [fitted_on |-> kwargs] ELSE [fitted_on |-> EmptyDict]

-----------------------------------------------------------------------------
(* Step._load_output / Step._save_output                                   *)

LoadOutput(st, sid, dir) ==
    LET name == st.steps[sid].name
    IN  Ok(Logged(st, Ev("load_output", st, sid, dir)),
           IF dir = "tmp" THEN st.Tmp[name] ELSE st.Out[name])

SaveOutput(st, sid, dir, output_data) ==
    LET name == st.steps[sid].name
    IN  Logged(IF dir = "tmp"
               THEN [st EXCEPT !.Tmp = Put(@, name, output_data)]
               ELSE [st EXCEPT !.Out = Put(@, name, output_data)],
               Ev("save_output", st, sid, dir))

\* Step.output_is_cached, Step.output_is_saved
OutputIsCached(st, sid) == st.steps[sid].name \in DOMAIN st.Tmp

OutputIsSaved(st, sid) == st.steps[sid].name \in DOMAIN st.Out

(* Step._copy_transformer: the Step's transformer becomes the other        *)
(* Step's transformer, then the other Step's artifact is copied under      *)
(* this Step's name; shutil.copyfile raises when there is none.            *)
CopyTransformer(st, sid) ==
    LET self == st.steps[sid]
        step == st.steps[self.transformer.id]
        st1 == [st EXCEPT !.steps[sid].transformer = step.transformer]
    IN  IF step.name \in DOMAIN st1.T
        THEN Ok(Logged([st1 EXCEPT !.T = Put(@, self.name, st1.T[step.name])],
                       Ev("copy", st, sid, step.name)), TRUE)
        ELSE Raise(st1, Error("FileNotFoundError", self.name, <<step.name>>, {}))

\* transformer_is_cached answering True without looking at the directory
TransformerIsCachedAlways(st, sid) == Ok(st, TRUE)

\* Step.transformer_is_cached
TransformerIsCached(st, sid) ==
    LET self == st.steps[sid]
    IN  IF self.transformer.kind = "step"
        THEN LET r == CopyTransformer(st, sid)
             IN  IF r.ok THEN Ok(r.st, self.name \in DOMAIN r.st.T) ELSE r
        ELSE Ok(st, self.name \in DOMAIN st.T)

\* the tail of the two methods when nothing is cached or saved
KeepOutputNowhere(st, sid, step_output_data) == st

\* the tail of _cached_fit_transform and _cached_transform: cache and save
\* the output as the flags say
KeepOutput(st, sid, step_output_data) ==
    LET self == st.steps[sid]
        st1 == IF self.cache_output
               THEN SaveOutput(st, sid, "tmp", step_output_data)
               ELSE st
    IN  IF self.save_output
        THEN SaveOutput(st1, sid, "outputs", step_output_data)
        ELSE st1

\* the branch of _cached_fit_transform that loads the transformer
LoadAndTransform(st, sid, step_inputs) ==
    LET self == st.steps[sid]
    IN  Logged(Logged(st, Ev("load", st, sid, self.transformer.id)),
               Ev("transform", st, sid, self.transformer.id))

\* _cached_fit_transform fitting without persisting the transformer
FitAndForget(st, sid, step_inputs) ==
    Logged(Logged(st, Ev("fit_transform", st, sid, st.steps[sid].transformer.id)),
           Ev("save", st, sid, st.steps[sid].transformer.id))

\* the branch of _cached_fit_transform that fits and saves the transformer
FitAndSave(st, sid, step_inputs) ==
    LET self == st.steps[sid]
        st1 == Logged(st, Ev("fit_transform", st, sid, self.transformer.id))
    IN  Logged([st1 EXCEPT !.T = Put(@, self.name, TransformerSave(self.transformer, step_inputs))],
               Ev("save", st, sid, self.transformer.id))

\* _cached_fit_transform as it would be without "and not self.force_fitting"
CachedFitTransformIgnoringForce(st, sid, step_inputs) ==
    LET c == TransformerIsCached(st, sid)
    IN  IF ~c.ok THEN c
        ELSE LET st1 == IF c.out
                        THEN LoadAndTransform(c.st, sid, step_inputs)
                        ELSE FitAndSave(c.st, sid, step_inputs)
                 step_output_data == TransformerTransform(step_inputs)
             IN  Ok(KeepOutput(st1, sid, step_output_data), step_output_data)

\* Step._cached_fit_transform
CachedFitTransform(st, sid, step_inputs) ==
    LET c == TransformerIsCached(st, sid)
    IN  IF ~c.ok THEN c
        ELSE LET self == c.st.steps[sid]
                 st1 == IF c.out /\ ~self.force_fitting
                        THEN LoadAndTransform(c.st, sid, step_inputs)
                        ELSE FitAndSave(c.st, sid, step_inputs)
                 step_output_data == TransformerTransform(step_inputs)
             IN  Ok(KeepOutput(st1, sid, step_output_data), step_output_data)

\* _cached_transform as it would be if it fitted a transformer it cannot load
CachedTransformFittingOnMiss(st, sid, step_inputs) ==
    CachedFitTransform(st, sid, step_inputs)

\* Step._cached_transform
CachedTransform(st, sid, step_inputs) ==
    LET c == TransformerIsCached(st, sid)
    IN  IF ~c.ok THEN c
        ELSE LET self == c.st.steps[sid]
             IN  IF c.out
                 THEN LET st1 == LoadAndTransform(c.st, sid, step_inputs)
                          step_output_data == TransformerTransform(step_inputs)
                      IN  Ok(KeepOutput(st1, sid, step_output_data), step_output_data)
                 ELSE Raise(c.st, Error("ValueError", self.name,
                                        <<"No transformer cached", self.name>>, {}))

-----------------------------------------------------------------------------
(* Adapting and unpacking the gathered inputs.  step_inputs is the         *)
(* insertion-ordered dict of (input name, payload) pairs.                  *)

\* Adapter._construct_element
ConstructElement(all_inputs, element) ==
    IF ~OHas(all_inputs, element.input_name)
    THEN [ok |-> FALSE, val |-> 0,
          err |-> Error("AdapterError", "", <<"No such input", element.input_name>>, {})]
    ELSE IF element.key \notin DOMAIN OGet(all_inputs, element.input_name)
    THEN [ok |-> FALSE, val |-> 0,
          err |-> Error("AdapterError", "",
                        <<"Input didn't have key", element.input_name, element.key>>, {})]
    ELSE [ok |-> TRUE, val |-> OGet(all_inputs, element.input_name)[element.key],
          err |-> NoError]

\* the result of constructing or adapting: a value or an exception
Got(val) == [ok |-> TRUE, val |-> val, err |-> NoError]

Threw(type, msg) == [ok |-> FALSE, val |-> 0, err |-> Error(type, "", msg, {})]

\* Adapter._construct_constant
ConstructConstant(all_inputs, constant) == Got(constant)

RECURSIVE Construct(_, _)

\* [self._construct(all_inputs, recipe) for recipe in items]: the values in
\* the order of the items, or the first exception
RECURSIVE ConstructItems(_, _, _)
ConstructItems(all_inputs, items, i) ==
    IF i > Len(items) THEN Got(<<>>)
    ELSE The({ IF ~r.ok THEN r
               ELSE The({ IF ~rest.ok THEN rest ELSE Got(<<r.val>> \o rest.val) :
                          rest \in {ConstructItems(all_inputs, items, i + 1)} }) :
               r \in {Construct(all_inputs, items[i])} })

\* Adapter._construct_list
ConstructList(all_inputs, lst) ==
    The({ IF ~r.ok THEN r ELSE Got(Lst(r.val)) :
          r \in {ConstructItems(all_inputs, lst.items, 1)} })

\* Adapter._construct_tuple
ConstructTuple(all_inputs, tup) ==
    The({ IF ~r.ok THEN r ELSE Got(Tup(r.val)) :
          r \in {ConstructItems(all_inputs, tup.items, 1)} })

\* Adapter._construct_dict: key and value of every item are constructed
ConstructDict(all_inputs, dic) ==
    The({ IF ~r.ok THEN r
          ELSE Got(Dic([i \in 1..Len(dic.pairs) |-> <<r.val[2 * i - 1], r.val[2 * i]>>])) :
          r \in {ConstructItems(all_inputs,
                                [j \in 1..(2 * Len(dic.pairs)) |->
                                    dic.pairs[(j + 1) \div 2][2 - (j % 2)]], 1)} })

\* Adapter._construct with a tuple of a list and a function taken for a
\* list to reduce with the function
ConstructReducing(all_inputs, recipe) ==
    IF recipe.kind = "element" THEN ConstructElement(all_inputs, recipe)
    ELSE IF recipe.kind = "tuple" /\ Len(recipe.items) = 2
            /\ recipe.items[1].kind = "list" /\ recipe.items[2].kind = "function"
    THEN ConstructList(all_inputs, recipe.items[1])
    ELSE IF recipe.kind = "tuple" THEN ConstructTuple(all_inputs, recipe)
    ELSE IF recipe.kind = "list" THEN ConstructList(all_inputs, recipe)
    ELSE IF recipe.kind = "dict" THEN ConstructDict(all_inputs, recipe)
    ELSE ConstructConstant(all_inputs, recipe)

\* Adapter._construct
Construct(all_inputs, recipe) ==
    IF recipe.kind = "element" THEN ConstructElement(all_inputs, recipe)
    ELSE IF recipe.kind = "tuple" THEN ConstructTuple(all_inputs, recipe)
    ELSE IF recipe.kind = "list" THEN ConstructList(all_inputs, recipe)
    ELSE IF recipe.kind = "dict" THEN ConstructDict(all_inputs, recipe)
    ELSE ConstructConstant(all_inputs, recipe)

\* Adapter.adapt keeping only the entry of the last recipe
AdapterAdaptLast(adapter, all_inputs) ==
    LET recipes == adapter.adapting_recipes
        res == [i \in 1..Len(recipes) |-> Construct(all_inputs, recipes[i][2])]
        bad == {i \in 1..Len(recipes) : ~res[i].ok}
    IN  IF bad # {}
        THEN [ok |-> FALSE, val |-> EmptyDict,
              err |-> res[CHOOSE i \in bad : \A j \in bad : i <= j].err]
        ELSE [ok |-> TRUE,
              val |-> [k \in {recipes[i][1] : i \in {Len(recipes)} \ {0}} |->
                          res[Len(recipes)].val],
              err |-> NoError]

\* Adapter.adapt: every recipe constructed from all_inputs, in the order of
\* the recipes; the first failure ends it
AdapterAdapt(adapter, all_inputs) ==
    LET recipes == adapter.adapting_recipes
        res == [i \in 1..Len(recipes) |-> Construct(all_inputs, recipes[i][2])]
        bad == {i \in 1..Len(recipes) : ~res[i].ok}
    IN  IF bad # {}
        THEN [ok |-> FALSE, val |-> EmptyDict,
              err |-> res[CHOOSE i \in bad : \A j \in bad : i <= j].err]
        ELSE [ok |-> TRUE,
              val |-> [k \in {recipes[i][1] : i \in 1..Len(recipes)} |->
                          res[CHOOSE i \in 1..Len(recipes) :
                                  /\ recipes[i][1] = k
                                  /\ \A j \in 1..Len(recipes) :
                                        recipes[j][1] = k => j <= i].val],
              err |-> NoError]

(* steps' Step.adapt.  A mapping that is not a string is taken by its      *)
(* length: two items are (step_mapping, func), one item is a step_mapping  *)
(* to reduce with take_first_inputs; every item of step_mapping is         *)
(* unpacked into (step_name, step_var).  The strings of the model are not  *)
(* two characters long, so a string never unpacks into two.                *)

\* len(x), -1 for an object without len
PyLen(x) ==
    IF x.kind = "element" THEN 2
    ELSE IF x.kind \in {"tuple", "list"} THEN Len(x.items)
    ELSE IF x.kind = "dict" THEN Len(x.pairs)
    ELSE -1

\* what iterating over x yields: the items, the keys of a dict
PyItems(x) ==
    IF x.kind = "element" THEN <<Str(x.input_name), Str(x.key)>>
    ELSE IF x.kind = "dict" THEN [i \in 1..Len(x.pairs) |-> x.pairs[i][1]]
    ELSE x.items

\* step_inputs[step_name][step_var] for step_name, step_var = item
RawInput(step_inputs, item) ==
    IF item.kind = "function" THEN Threw("TypeError", <<"cannot unpack">>)
    ELSE IF item.kind = "str" \/ PyLen(item) # 2
    THEN Threw("ValueError", <<"values to unpack">>)
    ELSE The({ IF names[1].kind # "str"
               THEN Threw(IF names[1].kind \in {"list", "dict"}
                          THEN "TypeError" ELSE "KeyError", <<"step_name">>)
               ELSE IF ~OHas(step_inputs, names[1].s)
               THEN Threw("KeyError", <<names[1].s>>)
               ELSE IF names[2].kind # "str"
               THEN Threw(IF names[2].kind \in {"list", "dict"}
                          THEN "TypeError" ELSE "KeyError", <<"step_var">>)
               ELSE IF names[2].s \notin DOMAIN OGet(step_inputs, names[1].s)
               THEN Threw("KeyError", <<names[2].s>>)
               ELSE Got(OGet(step_inputs, names[1].s)[names[2].s]) :
               names \in {PyItems(item)} })

\* raw_inputs = [step_inputs[step_name][step_var] for ... in step_mapping]
RECURSIVE RawInputs(_, _, _)
RawInputs(step_inputs, items, i) ==
    IF i > Len(items) THEN Got(<<>>)
    ELSE The({ IF ~r.ok THEN r
               ELSE The({ IF ~rest.ok THEN rest ELSE Got(<<r.val>> \o rest.val) :
                          rest \in {RawInputs(step_inputs, items, i + 1)} }) :
               r \in {RawInput(step_inputs, items[i])} })

\* sum(inputs) of arrays
RECURSIVE Sum(_)
Sum(inputs) ==
    IF inputs = <<>> THEN 0 ELSE inputs[1].array + Sum(Tail(inputs))

\* steps.adapters.take_first_inputs: the first item of the list
TakeFirstInputs(inputs) ==
    IF inputs = <<>> THEN Threw("IndexError", <<>>) ELSE Got(inputs[1])

\* func(raw_inputs): the builtin sum, or take_first_inputs
Apply(func, raw_inputs) ==
    IF func.kind # "function" THEN Threw("TypeError", <<"not callable">>)
    ELSE IF func.name = "sum"
    THEN IF raw_inputs = <<>> THEN Got([number |-> 0]) ELSE Got(Array(Sum(raw_inputs)))
    ELSE TakeFirstInputs(raw_inputs)

\* the body of the loop of Step.adapt for one mapping
StepsAdaptMapping(step_inputs, mapping) ==
    IF mapping.kind = "str"
    THEN IF OHas(step_inputs, mapping.s) THEN Got(OGet(step_inputs, mapping.s))
         ELSE Threw("KeyError", <<mapping.s>>)
    ELSE IF PyLen(mapping) = -1 THEN Threw("TypeError", <<"len">>)
    ELSE IF PyLen(mapping) \notin {1, 2}
    THEN Threw("ValueError", <<"wrong mapping specified">>)
    ELSE The({ IF step_mapping.kind = "function"
               THEN Threw("TypeError", <<"not iterable">>)
               ELSE IF step_mapping.kind = "str"
               THEN Threw("ValueError", <<"values to unpack">>)
               ELSE The({ IF ~raw.ok THEN raw
                          ELSE Apply(IF PyLen(mapping) = 2 THEN PyItems(mapping)[2]
                                     ELSE Fn("take_first_inputs"), raw.val) :
                          raw \in {RawInputs(step_inputs, PyItems(step_mapping), 1)} }) :
               step_mapping \in {IF PyLen(mapping) = 2 THEN PyItems(mapping)[1]
                                 ELSE mapping} })

\* Step.adapt of steps: adapted_steps[adapted_name] for every item of the
\* adapter dict, in order; the first exception ends it
StepsAdapt(adapter, step_inputs) ==
    LET recipes == adapter.adapting_recipes
        res == [i \in 1..Len(recipes) |-> StepsAdaptMapping(step_inputs, recipes[i][2])]
        bad == {i \in 1..Len(recipes) : ~res[i].ok}
    IN  IF bad # {}
        THEN [ok |-> FALSE, val |-> EmptyDict,
              err |-> res[CHOOSE i \in bad : \A j \in bad : i <= j].err]
        ELSE Got([k \in {recipes[i][1] : i \in 1..Len(recipes)} |->
                     res[CHOOSE i \in 1..Len(recipes) : recipes[i][1] = k].val])

\* `if self.adapter:` of fit_transform and transform: an Adapter object is
\* true, the adapter dict of steps is true when it is not empty
HasAdapter(st, sid) ==
    /\ st.steps[sid].adapter.kind # "none"
    /\ st.engine = "steps" => st.steps[sid].adapter.adapting_recipes # <<>>

\* Step._adapt without its except clause
AdaptLettingThrough(st, sid, step_inputs) ==
    LET self == st.steps[sid]
    IN  The({ IF r.ok THEN Ok(st, r.val)
              ELSE Raise(st, Error(r.err.type, self.name, r.err.msg, {})) :
              r \in {IF st.engine = "steppy" THEN AdapterAdapt(self.adapter, step_inputs)
                     ELSE StepsAdapt(self.adapter, step_inputs)} })

\* steppy's Step._adapt: an AdapterError becomes a StepsError that names the
\* step.  steps' Step.adapt lets its exception through.
Adapt(st, sid, step_inputs) ==
    LET self == st.steps[sid]
    IN  IF st.engine = "steppy"
        THEN The({ IF r.ok THEN Ok(st, r.val)
                   ELSE Raise(st, Error("StepsError", self.name,
                                        <<"Error while adapting step", self.name>>, {})) :
                   r \in {AdapterAdapt(self.adapter, step_inputs)} })
        ELSE The({ IF r.ok THEN Ok(st, r.val)
                   ELSE Raise(st, Error(r.err.type, self.name, r.err.msg, {})) :
                   r \in {StepsAdapt(self.adapter, step_inputs)} })

\* the payload of the last input alone
MergedLastOnly(step_inputs, i) ==
    IF i = 0 THEN EmptyDict ELSE step_inputs[i][2]

\* the union of the payloads, a later input's value replacing an earlier one's
RECURSIVE Merged(_, _)
Merged(step_inputs, i) ==
    IF i = 0 THEN EmptyDict ELSE step_inputs[i][2] @@ Merged(step_inputs, i - 1)

\* key_to_step_names[key] of _unpack: the inputs that have the key, in order
RECURSIVE StepNamesOf(_, _, _)
StepNamesOf(step_inputs, key, i) ==
    IF i = 0 THEN <<>>
    ELSE IF key \in DOMAIN step_inputs[i][2]
         THEN Append(StepNamesOf(step_inputs, key, i - 1), step_inputs[i][1])
         ELSE StepNamesOf(step_inputs, key, i - 1)

\* repeated_keys of _unpack
RepeatedKeys(step_inputs) ==
    LET unpacked_steps == Merged(step_inputs, Len(step_inputs))
    IN  {<<key, StepNamesOf(step_inputs, key, Len(step_inputs))>> :
            key \in {k \in DOMAIN unpacked_steps :
                        Len(StepNamesOf(step_inputs, k, Len(step_inputs))) > 1}}

(* steppy's Step._unpack.  Its message is the lines "'key' present in     *)
(* steps [...]" joined by the heading (the heading and the "\n" before     *)
(* .join are adjacent literals), so the heading shows only between lines.  *)
SteppyUnpack(st, sid, step_inputs) ==
    LET repeated_keys == RepeatedKeys(step_inputs)
    IN  IF repeated_keys = {}
        THEN Ok(st, Merged(step_inputs, Len(step_inputs)))
        ELSE Raise(st, Error("StepsError", st.steps[sid].name,
                             IF Cardinality(repeated_keys) > 1
                             THEN <<"Could not unpack inputs">> ELSE <<>>,
                             repeated_keys))

\* steps' Step.unpack: {**unpacked_steps, **step_dict} for every input
StepsUnpack(st, sid, step_inputs) == Ok(st, Merged(step_inputs, Len(step_inputs)))

Unpack(st, sid, step_inputs) ==
    IF st.engine = "steppy"
    THEN SteppyUnpack(st, sid, step_inputs)
    ELSE StepsUnpack(st, sid, step_inputs)

-----------------------------------------------------------------------------
(* Step.fit_transform and Step.transform.                                  *)

\* the loop over input_data: step_inputs[part] = data[part]
RECURSIVE GatherData(_, _, _, _, _)
GatherData(st, sid, data, i, step_inputs) ==
    LET input_data == st.steps[sid].input_data
    IN  IF i > Len(input_data) THEN Ok(st, step_inputs)
        ELSE IF input_data[i] \notin DOMAIN data
        THEN Raise(st, Error("KeyError", st.steps[sid].name, <<input_data[i]>>, {}))
        ELSE GatherData(st, sid, data, i + 1,
                        OPut(step_inputs, input_data[i], data[input_data[i]]))

RECURSIVE FitTransform(_, _, _)
RECURSIVE Transform(_, _, _)
RECURSIVE GatherSteps(_, _, _, _, _, _)

\* the loop over input_steps of fit_transform (fitting) or of transform:
\* step_inputs[input_step.name] = input_step.fit_transform(data)
GatherSteps(fitting, st, sid, data, i, step_inputs) ==
    LET input_steps == st.steps[sid].input_steps
    IN  IF i > Len(input_steps) THEN Ok(st, step_inputs)
        ELSE The({ IF ~r.ok THEN r
                   ELSE GatherSteps(fitting, r.st, sid, data, i + 1,
                                    OPut(step_inputs,
                                         r.st.steps[input_steps[i]].name, r.out)) :
                   r \in {IF fitting
                          THEN FitTransform(st, input_steps[i], data)
                          ELSE Transform(st, input_steps[i], data)} })

\* the else branch of both methods up to the call of the transformer
GatherInputs(fitting, st, sid, data) ==
    The({ IF ~g.ok THEN g
          ELSE The({ IF ~h.ok THEN h
                     ELSE The({ IF HasAdapter(st1, sid)
                                THEN Adapt(st1, sid, h.out)
                                ELSE Unpack(st1, sid, h.out) :
                                st1 \in {Logged(h.st,
                                                EvArg("gathered", h.st, sid, h.out))} }) :
                     h \in {GatherSteps(fitting, g.st, sid, data, 1, g.out)} }) :
          g \in {GatherData(st, sid, data, 1, <<>>)} })

\* the first test of fit_transform with the test of force_fitting inverted
FitLoadsCachedWhenForced(st, sid) ==
    OutputIsCached(st, sid) /\ st.steps[sid].force_fitting

\* whether fit_transform returns the cached output
FitLoadsCached(st, sid) == OutputIsCached(st, sid) /\ ~st.steps[sid].force_fitting

\* the second test of fit_transform without "and not self.force_fitting"
FitLoadsSavedAlsoWhenForced(st, sid) ==
    OutputIsSaved(st, sid) /\ st.steps[sid].load_saved_output

\* whether fit_transform returns the saved output
FitLoadsSaved(st, sid) ==
    /\ OutputIsSaved(st, sid)
    /\ st.steps[sid].load_saved_output
    /\ ~st.steps[sid].force_fitting

FitTransform(st0, sid, data) ==
    The({ IF FitLoadsCached(st, sid)
          THEN LoadOutput(st, sid, "tmp")
          ELSE IF FitLoadsSaved(st, sid)
          THEN LoadOutput(st, sid, "outputs")
          ELSE The({ IF ~g.ok THEN g ELSE CachedFitTransform(g.st, sid, g.out) :
                     g \in {GatherInputs(TRUE, st, sid, data)} }) :
          st \in {Logged(st0, Ev("call", st0, sid, "fit_transform"))} })

\* transform never looking for a cached output
TransformNeverLoadsCached(st, sid) == FALSE

\* whether transform returns the cached output
TransformLoadsCached(st, sid) == OutputIsCached(st, sid)

\* the second test of transform without "and self.load_saved_output"
TransformLoadsSavedUnasked(st, sid) == OutputIsSaved(st, sid)

\* whether transform returns the saved output
TransformLoadsSaved(st, sid) ==
    OutputIsSaved(st, sid) /\ st.steps[sid].load_saved_output

Transform(st0, sid, data) ==
    The({ IF TransformLoadsCached(st, sid)
          THEN LoadOutput(st, sid, "tmp")
          ELSE IF TransformLoadsSaved(st, sid)
          THEN LoadOutput(st, sid, "outputs")
          ELSE The({ IF ~g.ok THEN g ELSE CachedTransform(g.st, sid, g.out) :
                     g \in {GatherInputs(FALSE, st, sid, data)} }) :
          st \in {Logged(st0, Ev("call", st0, sid, "transform"))} })

\* Step._get_steps: the names of the step and of every step upstream of it
RECURSIVE GetSteps(_, _)
GetSteps(stps, sid) ==
    LET input_steps == stps[sid].input_steps
    IN  UNION {GetSteps(stps, input_steps[i]) : i \in 1..Len(input_steps)}
            \cup {stps[sid].name}

\* the names of the steps that keep their files in experiment directory dir
NamesIn(stps, dir) == {stps[s].name : s \in {x \in DOMAIN stps : stps[x].exp_dir = dir}}

\* clean_cache removing every cached output there is
CleanCacheEverywhere(st, sid) == [st EXCEPT !.Tmp = EmptyDict]

(* Step.clean_cache.  steppy removes every file of the tmp directory of    *)
(* the step's own experiment directory; steps removes the tmp file of      *)
(* each step of all_steps, each in the directory of that step.             *)
CleanCache(st, sid) ==
    IF st.engine = "steppy"
    THEN [st EXCEPT !.Tmp = [n \in (DOMAIN st.Tmp)
                                      \ NamesIn(st.steps, st.steps[sid].exp_dir)
                                |-> st.Tmp[n]]]
    ELSE [st EXCEPT !.Tmp = [n \in (DOMAIN st.Tmp) \ GetSteps(st.steps, sid) |-> st.Tmp[n]]]

-----------------------------------------------------------------------------
(* The tree engine as a state machine: a pipeline is built, then its       *)
(* steps are called.                                                       *)

Flagged(p, F) == {s \in DOMAIN p : F[s] # DefaultFlags}

Snapshot == [T |-> fsT, Tmp |-> fsTmp, Out |-> fsOut, steps |-> steps]

\* the state a call would start from if it emptied exp_dir/tmp first
CallStateClearingCache ==
    [T |-> fsT, Tmp |-> EmptyDict, Out |-> fsOut, steps |-> steps, log |-> <<>>,
     engine |-> engine]

CallState ==
    [T |-> fsT, Tmp |-> fsTmp, Out |-> fsOut, steps |-> steps, log |-> <<>>,
     engine |-> engine]

InitTree ==
    /\ engine \in {"steppy", "steps"}
    /\ \E p \in Pipelines(engine) :
          \E F \in [DOMAIN p -> FlagChoices] :
             /\ Cardinality(Flagged(p, F)) <= MaxFlagged
             /\ steps = [s \in DOMAIN p |-> WithFlags(p[s], F[s])]
    /\ fsT = EmptyDict
    /\ fsTmp = EmptyDict
    /\ fsOut = EmptyDict
    /\ tcall = [op |-> "none", sid |-> "", d |-> 0, ok |-> TRUE, out |-> EmptyDict,
                err |-> NoError, log |-> <<>>,
                pre |-> [T |-> EmptyDict, Tmp |-> EmptyDict, Out |-> EmptyDict,
                         steps |-> steps]]

Returned(op, sid, d, r, pre) ==
    /\ fsT' = r.st.T
    /\ fsTmp' = r.st.Tmp
    /\ fsOut' = r.st.Out
    /\ steps' = r.st.steps
    /\ tcall' = [op |-> op, sid |-> sid, d |-> d, ok |-> r.ok, out |-> r.out,
                 err |-> r.err, log |-> r.st.log, pre |-> pre]
    /\ UNCHANGED <<engine, graphVars>>

\* step.fit_transform(data)
CallFitTransform(sid, d) ==
    \E r \in {FitTransform(CallState, sid, Data(d))} :
       Returned("fit_transform", sid, d, r, Snapshot)

\* step.transform(data)
CallTransform(sid, d) ==
    \E r \in {Transform(CallState, sid, Data(d))} :
       Returned("transform", sid, d, r, Snapshot)

\* step.clean_cache()
CallCleanCache(sid) ==
    \E r \in {Ok(CleanCache(CallState, sid), EmptyDict)} :
       Returned("clean_cache", sid, 0, r, Snapshot)

NextTree ==
    \/ \E sid \in DOMAIN steps, d \in Datasets : CallFitTransform(sid, d)
    \/ \E sid \in DOMAIN steps, d \in Datasets : CallTransform(sid, d)
    \/ \E sid \in DOMAIN steps : CallCleanCache(sid)

-----------------------------------------------------------------------------
(* The graph engine.  MultiPipeline._graph is a networkx DiGraph: every    *)
(* node and every edge carries a dict of attributes.                       *)

None == [none |-> TRUE]

\* DiGraph.add_node(n, **attrs)
AddNode(g, n, attrs) ==
    [g EXCEPT !.nodes = Put(@, n, IF n \in DOMAIN @ THEN attrs @@ @[n] ELSE attrs)]

\* DiGraph.add_edge(u, v): the end nodes that are not in the graph are
\* added to it, without attributes
AddEdge(g, u, v) ==
    LET nodes1 == IF u \in DOMAIN g.nodes THEN g.nodes ELSE Put(g.nodes, u, EmptyDict)
        nodes2 == IF v \in DOMAIN nodes1 THEN nodes1 ELSE Put(nodes1, v, EmptyDict)
    IN  [nodes |-> nodes2,
         edges |-> IF <<u, v>> \in DOMAIN g.edges THEN g.edges
                   ELSE Put(g.edges, <<u, v>>, EmptyDict)]

\* networkx ancestors(G, source): the nodes with a path to source, source
\* itself left out
RECURSIVE Reaching(_, _)
Reaching(g, found) ==
    LET more == {e[1] : e \in {x \in DOMAIN g.edges : x[2] \in found}}
    IN  IF more \subseteq found THEN found ELSE Reaching(g, found \cup more)

Ancestors(g, source) == Reaching(g, {source}) \ {source}

\* DiGraph.subgraph(names)
Subgraph(g, names) ==
    [nodes |-> [n \in (DOMAIN g.nodes) \cap names |-> g.nodes[n]],
     edges |-> [e \in {x \in DOMAIN g.edges : x[1] \in names /\ x[2] \in names}
                   |-> g.edges[e]]]

\* node names are compared as strings; the names of the model are single
\* letters in alphabetical order
NameOrder == <<"A", "B", "C", "D">>

NameRank(n) == CHOOSE i \in 1..Len(NameOrder) : NameOrder[i] = n

\* the heap giving its greatest name first
Greatest(names) == CHOOSE n \in names : \A m \in names : NameRank(n) >= NameRank(m)

Least(names) == CHOOSE n \in names : \A m \in names : NameRank(n) <= NameRank(m)

(* networkx lexicographical_topological_sort(G): the nodes without         *)
(* incoming edge wait in a heap; the least is yielded and its children     *)
(* lose one incoming edge each.  It is a generator: when nodes are left    *)
(* with incoming edges at the end (a cycle), NetworkXUnfeasible is raised  *)
(* after the nodes before them were yielded.                               *)
\* the sort with children that never lose an incoming edge
TopoWalkNeverReleasing(g, done, order) ==
    LET sources == {n \in DOMAIN g.nodes : \A e \in DOMAIN g.edges : e[2] # n}
        RECURSIVE InOrder(_)
        InOrder(left) ==
            IF left = {} THEN <<>>
            ELSE <<Least(left)>> \o InOrder(left \ {Least(left)})
    IN  [order |-> InOrder(sources), feasible |-> sources = DOMAIN g.nodes]

RECURSIVE TopoWalk(_, _, _)
TopoWalk(g, done, order) ==
    LET zero_indegree ==
            {n \in (DOMAIN g.nodes) \ done :
                \A e \in DOMAIN g.edges : e[2] = n => e[1] \in done}
    IN  IF zero_indegree = {}
        THEN [order |-> order, feasible |-> done = DOMAIN g.nodes]
        ELSE TopoWalk(g, done \cup {Least(zero_indegree)},
                      Append(order, Least(zero_indegree)))

LexicographicalTopologicalSort(g) == TopoWalk(g, {}, <<>>)

-----------------------------------------------------------------------------
(* The steps of the graph engine: instances of the classes of the tests    *)
(* and of millet.dataloaders.                                              *)

MStep(id, base, class) == [id |-> id, base |-> base, class |-> class]

dl1 == MStep("dl1", "DataLoader", "PassThroughDataLoader")
dl2 == MStep("dl2", "DataLoader", "SimpleDataLoader")
un1 == MStep("un1", "UnsupervTransformer", "SimpleUnsupervTransformer")
sv1 == MStep("sv1", "SupervTransformer", "SimpleSupervTransformer")

\* the result of a method of a step: a payload, or the KeyError of a
\* missing key
Value(v) == [ok |-> TRUE, val |-> v, err |-> NoError]

Failed(type, n, word) ==
    [ok |-> FALSE, val |-> EmptyDict, err |-> Error(type, n, <<word>>, {})]

\* PassThroughDataLoader.load_data, SimpleDataLoader.load_data
LoadData(step, input_info) ==
    IF step.class = "PassThroughDataLoader" THEN Value(input_info)
    ELSE IF "X" \in DOMAIN input_info THEN Value([X |-> input_info.X])
    ELSE Failed("KeyError", step.id, "X")

\* SimpleUnsupervTransformer.transform, SimpleSupervTransformer.transform
StepTransform(step, input_dict) ==
    IF "X" \notin DOMAIN input_dict THEN Failed("KeyError", step.id, "X")
    ELSE IF step.class = "SimpleUnsupervTransformer" THEN Value([X |-> input_dict.X])
    ELSE IF "y" \notin DOMAIN input_dict THEN Failed("KeyError", step.id, "y")
    ELSE Value([X |-> input_dict.X, y |-> input_dict.y])

\* the input_info of a run
RunDatasets == {1}

InputInfo(d) == [X |-> 10 * d + 1, y |-> 10 * d + 2]

-----------------------------------------------------------------------------
(* MultiPipeline.  A call ends with the graph it leaves, the value it      *)
(* returns or the exception it raises, and the log of the steps it ran.    *)

GOk(g, log, ret) == [g |-> g, ok |-> TRUE, err |-> NoError, log |-> log, ret |-> ret]

GRaise(g, log, err) == [g |-> g, ok |-> FALSE, err |-> err, log |-> log, ret |-> EmptyDict]

\* _check_add_step without its test of the name
CheckAddStepOverwriting(g, step, node_name) ==
    GOk(AddNode(g, node_name, [step |-> step, output |-> None]), <<>>, EmptyDict)

\* MultiPipeline._check_add_step
CheckAddStep(g, step, node_name) ==
    IF node_name \in DOMAIN g.nodes
    THEN GRaise(g, <<>>, Error("MilletNameException", node_name, <<>>, {}))
    ELSE GOk(AddNode(g, node_name, [step |-> step, output |-> None]), <<>>, EmptyDict)

\* the wiring of an edge replaced by the one new key
ConnectKeyReplacing(g, node_name, attr, new_data_key, src_name, src_key) ==
    LET g1 == AddEdge(g, src_name, node_name)
        data == g1.edges[<<src_name, node_name>>]
    IN  [g1 EXCEPT !.edges[<<src_name, node_name>>] =
                       Put(data, attr, Put(EmptyDict, new_data_key, src_key))]


\* one turn of the loop of _connect_input_mapping / _connect_superv_mapping:
\* the edge is added when it is missing, its dict `attr` is added when it
\* is missing, and the dict gets attr[new_data_key] = src_key
ConnectKey(g, node_name, attr, new_data_key, src_name, src_key) ==
    LET g1 == AddEdge(g, src_name, node_name)
        data == g1.edges[<<src_name, node_name>>]
        keys == IF attr \in DOMAIN data THEN data[attr] ELSE EmptyDict
    IN  [g1 EXCEPT !.edges[<<src_name, node_name>>] =
                       Put(data, attr, Put(keys, new_data_key, src_key))]

\* the loop over mapping.items(); a mapping is the sequence of its
\* <<new_data_key, src_name, src_key>> items
RECURSIVE ConnectMapping(_, _, _, _, _)
ConnectMapping(g, node_name, attr, mapping, i) ==
    IF i > Len(mapping) THEN g
    ELSE ConnectMapping(ConnectKey(g, node_name, attr,
                                   mapping[i][1], mapping[i][2], mapping[i][3]),
                        node_name, attr, mapping, i + 1)

\* MultiPipeline._connect_input_mapping
ConnectInputMapping(g, node_name, input_mapping) ==
    ConnectMapping(g, node_name, "source_data_keys", input_mapping, 1)

\* MultiPipeline._connect_superv_mapping
ConnectSupervMapping(g, node_name, superv_mapping) ==
    ConnectMapping(g, node_name, "source_superv_keys", superv_mapping, 1)

\* MultiPipeline.add_dataloader
AddDataloader(g, dataloader, node_name) ==
    IF dataloader.base # "DataLoader"
    THEN GRaise(g, <<>>, Error("MilletTypeException", node_name, <<>>, {}))
    ELSE CheckAddStep(g, dataloader, node_name)

\* add_superv without its test of the class of the transformer
AddSupervUntyped(g, transformer, node_name, input_mapping, superv_mapping) ==
    LET r == CheckAddStep(g, transformer, node_name)
    IN  IF ~r.ok THEN r
        ELSE GOk(ConnectSupervMapping(
                     ConnectInputMapping(r.g, node_name, input_mapping),
                     node_name, superv_mapping),
                 <<>>, EmptyDict)

\* MultiPipeline.add_superv
AddSuperv(g, transformer, node_name, input_mapping, superv_mapping) ==
    IF transformer.base # "SupervTransformer"
    THEN GRaise(g, <<>>, Error("MilletTypeException", node_name, <<>>, {}))
    ELSE LET r == CheckAddStep(g, transformer, node_name)
         IN  IF ~r.ok THEN r
             ELSE GOk(ConnectSupervMapping(
                          ConnectInputMapping(r.g, node_name, input_mapping),
                          node_name, superv_mapping),
                      <<>>, EmptyDict)

\* MultiPipeline.add_unsuperv
AddUnsuperv(g, transformer, node_name, input_mapping) ==
    IF transformer.base # "UnsupervTransformer"
    THEN GRaise(g, <<>>, Error("MilletTypeException", node_name, <<>>, {}))
    ELSE LET r == CheckAddStep(g, transformer, node_name)
         IN  IF ~r.ok THEN r
             ELSE GOk(ConnectInputMapping(r.g, node_name, input_mapping), <<>>, EmptyDict)

\* MultiPipeline.get_step
GetStep(g, node_name) == g.nodes[node_name].step

\* MultiPipeline.get_step_output
GetStepOutput(g, node_name) == g.nodes[node_name].output

\* clear_all_outputs clearing nothing
ClearNoOutput(g) == g

\* clear_all_outputs leaving every node with an empty output slot and
\* nothing else
ClearAllNodes(g) ==
    [g EXCEPT !.nodes = [n \in DOMAIN g.nodes |-> Put(EmptyDict, "output", None)]]

\* MultiPipeline.clear_all_outputs (clear_step_output on every node)
ClearAllOutputs(g) ==
    [g EXCEPT !.nodes = [n \in DOMAIN g.nodes |-> Put(g.nodes[n], "output", None)]]

\* the two loops of _translate_inputs / _translate_superv:
\* new_dict[new_data_key] = src_output[src_data_key] for every key of the
\* dict attr of every incoming edge; a source output without the key is a
\* KeyError
Translate(g, node_name, attr) ==
    LET srcs == {e[1] : e \in {x \in DOMAIN g.edges : /\ x[2] = node_name
                                                     /\ attr \in DOMAIN g.edges[x]}}
        items == {<<src, k>> : src \in srcs, k \in {"X", "y"}}
        wired == {it \in items : it[2] \in DOMAIN g.edges[<<it[1], node_name>>][attr]}
        SrcKey(it) == g.edges[<<it[1], node_name>>][attr][it[2]]
        missing == {it \in wired : SrcKey(it) \notin DOMAIN GetStepOutput(g, it[1])}
    IN  IF missing # {}
        THEN Failed("KeyError", node_name, SrcKey(CHOOSE it \in missing : TRUE))
        ELSE Value([k \in {it[2] : it \in wired} |->
                       LET it == CHOOSE x \in wired : x[2] = k
                       IN  GetStepOutput(g, it[1])[SrcKey(it)]])

\* MultiPipeline._translate_inputs
TranslateInputs(g, node_name) == Translate(g, node_name, "source_data_keys")

\* _translate_superv reading the input wiring
TranslateSupervFromInputs(g, node_name) == Translate(g, node_name, "source_data_keys")

\* MultiPipeline._translate_superv
TranslateSuperv(g, node_name) == Translate(g, node_name, "source_superv_keys")

\* one step run by MultiPipeline.run: the method called on the step of
\* the node, what it was given and what it returned
Ran(node_name, step, op, input, has_superv, superv, r) ==
    [node |-> node_name, step |-> step.id, op |-> op, input |-> input,
     has_superv |-> has_superv, superv |-> superv, ok |-> r.ok, out |-> r.val]

\* the body of the loop of MultiPipeline.run for one node
RunNode(g, node_name, input_info, fit_node_names, log) ==
    LET node == g.nodes[node_name]
        step == node.step
        input_dict == TranslateInputs(g, node_name)
        superv_dict == TranslateSuperv(g, node_name)
        fit == node_name \in fit_node_names
        Store(ev) ==
            IF ev.ok
            THEN GOk([g EXCEPT !.nodes[node_name] = Put(node, "output", ev.out)],
                     Append(log, ev), EmptyDict)
            ELSE GRaise(g, Append(log, ev), Error("KeyError", node_name, <<>>, {}))
    IN  IF "step" \notin DOMAIN node
        THEN GRaise(g, log, Error("KeyError", node_name, <<"step">>, {}))
        ELSE IF step.base = "DataLoader"
        THEN Store(Ran(node_name, step, "load_data", input_info, FALSE, EmptyDict,
                       LoadData(step, input_info)))
        ELSE IF ~input_dict.ok
        THEN GRaise(g, log, input_dict.err)
        ELSE IF step.base = "SupervTransformer" /\ fit
        THEN IF ~superv_dict.ok
             THEN GRaise(g, log, superv_dict.err)
             ELSE Store(Ran(node_name, step, "fit_transform", input_dict.val, TRUE,
                            superv_dict.val, StepTransform(step, input_dict.val)))
        ELSE Store(Ran(node_name, step, IF fit THEN "fit_transform" ELSE "transform",
                       input_dict.val, FALSE, EmptyDict,
                       StepTransform(step, input_dict.val)))

\* the loop of MultiPipeline.run over the nodes the sort yields; the sort
\* is a generator, which raises NetworkXUnfeasible after the nodes it
\* could yield
RECURSIVE RunLoop(_, _, _, _, _, _)
RunLoop(g, sorted, i, input_info, fit_node_names, log) ==
    IF i > Len(sorted.order)
    THEN IF sorted.feasible THEN GOk(g, log, EmptyDict)
         ELSE GRaise(g, log, Error("NetworkXUnfeasible", "", <<>>, {}))
    ELSE The({ IF ~r.ok THEN r
               ELSE RunLoop(r.g, sorted, i + 1, input_info, fit_node_names, r.log) :
               r \in {RunNode(g, sorted.order[i], input_info, fit_node_names, log)} })

\* every node of the graph taken as a step to run
NamesOfWholeGraph(g, up_to_steps_and_fit_steps) == DOMAIN g.nodes

\* the names of the steps to run: the requested nodes and their ancestors
NamesStepsToRun(g, up_to_steps_and_fit_steps) ==
    up_to_steps_and_fit_steps
        \cup UNION {Ancestors(g, n) : n \in up_to_steps_and_fit_steps}

\* the mapping run would return if it gave every output of the graph
OutputsOfEveryNode(g, output_node_names) ==
    [n \in {m \in DOMAIN g.nodes : GetStepOutput(g, m) # None} |-> GetStepOutput(g, n)]

\* the mapping run returns
Outputs(g, output_node_names) ==
    [n \in output_node_names |-> GetStepOutput(g, n)]

\* MultiPipeline.run
Run(g0, input_info, output_node_names, fit_node_names) ==
    LET up_to_steps_and_fit_steps == output_node_names \cup fit_node_names
    IN  The({ IF up_to_steps_and_fit_steps = {}
              THEN GRaise(g, <<>>, Error("TypeError", "", <<"reduce">>, {}))
              ELSE IF up_to_steps_and_fit_steps \ DOMAIN g.nodes # {}
              THEN GRaise(g, <<>>, Error("NetworkXError", "", <<>>, {}))
              ELSE The({ IF ~r.ok THEN r
                         ELSE GOk(r.g, r.log, Outputs(r.g, output_node_names)) :
                         r \in {RunLoop(g,
                                        LexicographicalTopologicalSort(
                                            Subgraph(g, NamesStepsToRun(
                                                            g, up_to_steps_and_fit_steps))),
                                        1, input_info, fit_node_names, <<>>)} }) :
              g \in {ClearAllOutputs(g0)} })

-----------------------------------------------------------------------------
(* The calls made on one MultiPipeline.                                    *)

\* a wiring entry {new_data_key: (src_name, src_key)}
W(new_data_key, src_name, src_key) == <<new_data_key, src_name, src_key>>

AddDataloaderCalls ==
    { <<dl1, "A">>, <<dl2, "A">>, <<un1, "A">>, <<sv1, "A">> }

AddUnsupervCalls ==
    { <<un1, "B", <<W("X", "A", "X")>> >>,
      <<un1, "D", <<W("X", "B", "X"), W("y", "C", "X")>> >>,
      <<un1, "D", <<W("X", "D", "X")>> >>,
      <<sv1, "B", <<W("X", "A", "X")>> >>,
      <<dl2, "B", <<W("X", "A", "X")>> >> }

AddSupervCalls ==
    { <<sv1, "C", <<W("X", "A", "X"), W("y", "A", "y")>>, <<W("y", "A", "X")>> >>,
      <<sv1, "D", <<W("X", "B", "X"), W("y", "B", "X")>>,
                  <<W("y", "C", "X"), W("X", "C", "X")>> >>,
      <<dl1, "C", <<W("X", "A", "X")>>, <<>> >>,
      <<un1, "C", <<W("X", "A", "X")>>, <<W("y", "A", "y")>> >> }

\* the names a run may ask for
NodeNames == {NameOrder[i] : i \in 1..Len(NameOrder)}

MaxOutputs == 2

MaxFits == 1

NoCall ==
    [op |-> "none", step |-> "", node_name |-> "", input_mapping |-> <<>>,
     superv_mapping |-> <<>>, d |-> 0, output_node_names |-> {},
     fit_node_names |-> {}]

\* MultiPipeline.__init__
InitGraph ==
    /\ graph = [nodes |-> EmptyDict, edges |-> EmptyDict]
    /\ mcall = [call |-> NoCall, ok |-> TRUE, err |-> NoError, log |-> <<>>,
                ret |-> EmptyDict, pre |-> [nodes |-> EmptyDict, edges |-> EmptyDict]]

GReturned(call, r) ==
    /\ graph' = r.g
    /\ mcall' = [call |-> call, ok |-> r.ok, err |-> r.err, log |-> r.log,
                 ret |-> r.ret, pre |-> graph]
    /\ UNCHANGED treeVars

\* pipeline.add_dataloader(dataloader, node_name)
CallAddDataloader(c) ==
    \E r \in {AddDataloader(graph, c[1], c[2])} :
       GReturned([NoCall EXCEPT !.op = "add_dataloader", !.step = c[1].id,
                                !.node_name = c[2]], r)

\* pipeline.add_unsuperv(transformer, node_name, input_mapping)
CallAddUnsuperv(c) ==
    \E r \in {AddUnsuperv(graph, c[1], c[2], c[3])} :
       GReturned([NoCall EXCEPT !.op = "add_unsuperv", !.step = c[1].id,
                                !.node_name = c[2], !.input_mapping = c[3]], r)

\* pipeline.add_superv(transformer, node_name, input_mapping, superv_mapping)
CallAddSuperv(c) ==
    \E r \in {AddSuperv(graph, c[1], c[2], c[3], c[4])} :
       GReturned([NoCall EXCEPT !.op = "add_superv", !.step = c[1].id,
                                !.node_name = c[2], !.input_mapping = c[3],
                                !.superv_mapping = c[4]], r)

\* pipeline.run(input_info, output_node_names, fit_node_names)
CallRun(d, output_node_names, fit_node_names) ==
    /\ Cardinality(output_node_names) <= MaxOutputs
    /\ Cardinality(fit_node_names) <= MaxFits
    /\ \E r \in {Run(graph, InputInfo(d), output_node_names, fit_node_names)} :
          GReturned([NoCall EXCEPT !.op = "run", !.d = d,
                                   !.output_node_names = output_node_names,
                                   !.fit_node_names = fit_node_names], r)

NextGraph ==
    \/ \E c \in AddDataloaderCalls : CallAddDataloader(c)
    \/ \E c \in AddUnsupervCalls : CallAddUnsuperv(c)
    \/ \E c \in AddSupervCalls : CallAddSuperv(c)
    \/ \E d \in RunDatasets, o \in SUBSET NodeNames, f \in SUBSET NodeNames :
          CallRun(d, o, f)

\* the steps of a behaviour of the graph engine: one pipeline, never called
IdleTree ==
    /\ engine = "steppy"
    /\ steps = PCollide
    /\ fsT = EmptyDict
    /\ fsTmp = EmptyDict
    /\ fsOut = EmptyDict
    /\ tcall = [op |-> "none", sid |-> "", d |-> 0, ok |-> TRUE, out |-> EmptyDict,
                err |-> NoError, log |-> <<>>,
                pre |-> [T |-> EmptyDict, Tmp |-> EmptyDict, Out |-> EmptyDict,
                         steps |-> steps]]

\* the behaviours of one MultiPipeline
InitOfGraph == IdleTree /\ InitGraph

SpecGraph == InitOfGraph /\ [][NextGraph]_vars

\* the behaviours of one pipeline of Steps, of either package
InitOfTree == InitTree /\ InitGraph

SpecTree == InitOfTree /\ [][NextTree]_vars

-----------------------------------------------------------------------------
(* Building a pipeline: Step(...) called on top of the Steps built so far. *)
(* steppy's __init__ calls _prepare_experiment_directories, which reads    *)
(* self.name, two lines before it assigns self.name: the call raises       *)
(* AttributeError and no Step comes of it.  steps' __init__ assigns its    *)
(* arguments and checks nothing: a name used upstream is taken as it is.   *)
(* (SpecTree starts from the Step objects as the assignments of __init__   *)
(* leave them, the name assigned first.)                                   *)

\* how many Steps a behaviour of SpecBuild builds
MaxBuilt == 2

BuildNames == {"a", "b"}

BuildIds == <<"s1", "s2", "s3">>

\* Step.__init__(name, transformer, input_data, input_steps) for the new
\* object sid
StepInit(st, sid, name, transformer, input_data, input_steps) ==
    LET st1 == Logged(st, [e |-> "init", sid |-> sid, n |-> name, x |-> "",
                           arg |-> input_steps])
    IN  IF st.engine = "steppy"
        THEN Raise(st1, Error("AttributeError", name, <<"name">>, {}))
        ELSE Ok([st1 EXCEPT !.steps =
                    Put(@, sid, Step(name, transformer, input_data, input_steps, NoAdapter))],
                EmptyDict)

InitBuild ==
    /\ engine \in {"steppy", "steps"}
    /\ steps = EmptyDict
    /\ fsT = EmptyDict
    /\ fsTmp = EmptyDict
    /\ fsOut = EmptyDict
    /\ tcall = [op |-> "none", sid |-> "", d |-> 0, ok |-> TRUE, out |-> EmptyDict,
                err |-> NoError, log |-> <<>>,
                pre |-> [T |-> EmptyDict, Tmp |-> EmptyDict, Out |-> EmptyDict,
                         steps |-> EmptyDict]]

\* Step(name=name, transformer=..., input_data=[...], input_steps=[...])
CallStep(name, input_data, input_steps) ==
    /\ Cardinality(DOMAIN steps) < MaxBuilt
    /\ \E sid \in {BuildIds[Cardinality(DOMAIN steps) + 1]} :
          \E r \in {StepInit(CallState, sid, name, Learner(sid), input_data, input_steps)} :
             Returned("Step", sid, 0, r, Snapshot)

NextBuild ==
    \/ \E name \in BuildNames, part \in {"input_1", "input_2"},
          input_steps \in {<<>>} \cup {<<s>> : s \in DOMAIN steps} :
          CallStep(name, <<part>>, input_steps)
    \/ \E sid \in DOMAIN steps, d \in Datasets : CallFitTransform(sid, d)
    \/ \E sid \in DOMAIN steps, d \in Datasets : CallTransform(sid, d)
    \/ \E sid \in DOMAIN steps : CallCleanCache(sid)

\* the behaviours of a pipeline that is built Step by Step and called
InitOfBuild == InitBuild /\ InitGraph

SpecBuild == InitOfBuild /\ [][NextBuild]_vars

-----------------------------------------------------------------------------

(* A Step with an adapter, as the tests of the adapter build it: one Step  *)
(* of a transformer that returns its arguments, with two inputs.           *)

E1 == E("input_1", "features")

E2 == E("input_2", "extra_features")

\* the recipes of the tests, a tuple and a dict of references, constants,
\* and references to an input and to a key that are not there
AdapterRecipes ==
    { E1, E2, E("input_4", "features"), E("input_1", "images"),
      Lst(<<>>), Lst(<<E1>>), Lst(<<E1, E2>>), Lst(<<E1, E2, E1>>),
      Tup(<<Lst(<<E1, E2>>), Fn("sum")>>),
      Tup(<<Lst(<<E2, E1>>), Fn("take_first_inputs")>>), Tup(<<E1, E2, E1>>),
      Dic(<< <<Str("k"), E2>> >>), Fn("sum"), Str("input_1") }

\* the adapter dicts: none, one or two recipes
RecipeDicts ==
    {<<>>} \cup {<< <<"X", r>> >> : r \in AdapterRecipes}
           \cup {<< <<"X", r>>, <<"Y", q>> >> : r \in AdapterRecipes, q \in AdapterRecipes}

PAdapter(adapting_recipes) ==
    [a |-> Step("a", Obj("ta"), <<"input_1", "input_2">>, <<>>, Adapter(adapting_recipes))]

InitAdapt ==
    /\ engine \in {"steppy", "steps"}
    /\ \E adapting_recipes \in RecipeDicts : steps = PAdapter(adapting_recipes)
    /\ fsT = EmptyDict
    /\ fsTmp = EmptyDict
    /\ fsOut = EmptyDict
    /\ tcall = [op |-> "none", sid |-> "", d |-> 0, ok |-> TRUE, out |-> EmptyDict,
                err |-> NoError, log |-> <<>>,
                pre |-> [T |-> EmptyDict, Tmp |-> EmptyDict, Out |-> EmptyDict,
                         steps |-> steps]]

\* the behaviours of a Step with an adapter
InitOfAdapt == InitAdapt /\ InitGraph

SpecAdapt == InitOfAdapt /\ [][NextTree]_vars

-----------------------------------------------------------------------------
(* The structure of the pipeline upstream of a Step, as it is handed to    *)
(* the drawing functions: steppy's upstream_pipeline_structure (graph_info *)
(* in steps, the same code under other names).                             *)

RECURSIVE BuildStructureDict(_, _, _)

\* the loop over input_steps of _build_structure_dict: the structure of the
\* input step, then the edge from it
RECURSIVE BuildStructureOfInputs(_, _, _, _)
BuildStructureOfInputs(stps, sid, i, structure_dict) ==
    IF i > Len(stps[sid].input_steps) THEN structure_dict
    ELSE The({ BuildStructureOfInputs(stps, sid, i + 1,
                   [sd EXCEPT !.edges = @ \cup {<<stps[stps[sid].input_steps[i]].name,
                                                  stps[sid].name>>}]) :
               sd \in {BuildStructureDict(stps, stps[sid].input_steps[i], structure_dict)} })

\* _build_structure_dict adding the Step and its edges but not the keys of
\* its input data as nodes
BuildStructureDictOfSteps(stps, sid, structure_dict) ==
    The({ [nodes |-> sd.nodes \cup {stps[sid].name},
           edges |-> sd.edges \cup {<<stps[sid].input_data[i], stps[sid].name>> :
                                      i \in 1..Len(stps[sid].input_data)}] :
          sd \in {BuildStructureOfInputs(stps, sid, 1, structure_dict)} })

\* Step._build_structure_dict
BuildStructureDict(stps, sid, structure_dict) ==
    The({ [nodes |-> sd.nodes \cup {stps[sid].name}
                     \cup {stps[sid].input_data[i] : i \in 1..Len(stps[sid].input_data)},
           edges |-> sd.edges \cup {<<stps[sid].input_data[i], stps[sid].name>> :
                                      i \in 1..Len(stps[sid].input_data)}] :
          sd \in {BuildStructureOfInputs(stps, sid, 1, structure_dict)} })

\* Step.upstream_pipeline_structure
UpstreamPipelineStructure(stps, sid) ==
    BuildStructureDict(stps, sid, [edges |-> {}, nodes |-> {}])

\* step.upstream_pipeline_structure
CallStructure(sid) ==
    \E r \in {Ok(CallState, UpstreamPipelineStructure(steps, sid))} :
       Returned("upstream_pipeline_structure", sid, 0, r, Snapshot)

NextStructure == \E sid \in DOMAIN steps : CallStructure(sid)

\* the structures of the steps of the pipelines
SpecStructure == InitOfTree /\ [][NextStructure]_vars

-----------------------------------------------------------------------------

(* Reading the last call of the tree engine.                               *)

TLog == tcall.log

TName(sid) == steps[sid].name

\* whether transformers/name exists when entry i of the log is made
ArtifactAt(i, name) ==
    \/ name \in DOMAIN tcall.pre.T
    \/ \E j \in 1..(i - 1) : TLog[j].n = name /\ TLog[j].e \in {"save", "copy"}

\* whether tmp/name exists when entry i of the log is made
CachedAt(i, name) ==
    \/ name \in DOMAIN tcall.pre.Tmp
    \/ \E j \in 1..(i - 1) :
          TLog[j].n = name /\ TLog[j].e = "save_output" /\ TLog[j].x = "tmp"

\* the call invoked fit or fit_transform of some transformer
FitInvoked == \E i \in 1..Len(TLog) : TLog[i].e = "fit_transform"

\* C1: in a fit_transform call, every step that is executed either has its
\* persisted transformer loaded and then transformed with (when the
\* artifact exists at that point and force_fitting is off), or is fitted
\* with fit_transform and its transformer saved at once (otherwise), so
\* that the artifact exists when the call is over.
C1_LoadOrFitDispatch ==
    tcall.op = "fit_transform" =>
        \A i \in 1..Len(TLog) :
            LET ev == TLog[i]
            IN  /\ ev.e = "transform" =>
                      /\ ArtifactAt(i, ev.n)
                      /\ ~steps[ev.sid].force_fitting
                      /\ TLog[i - 1].e = "load" /\ TLog[i - 1].sid = ev.sid
                /\ ev.e = "fit_transform" =>
                      /\ ~ArtifactAt(i, ev.n) \/ steps[ev.sid].force_fitting
                      /\ i < Len(TLog)
                      /\ TLog[i + 1].e = "save" /\ TLog[i + 1].sid = ev.sid
                      /\ ev.n \in DOMAIN fsT
                /\ ev.e = "load" =>
                      i < Len(TLog) /\ TLog[i + 1].e = "transform"
                /\ (ev.e = "gathered" /\ i < Len(TLog)) =>
                      TLog[i + 1].e \in {"load", "fit_transform", "copy"}

\* a fit_transform call that returned, in which one step had its persisted
\* transformer loaded and another step was fitted
C1_Witness ==
    /\ tcall.op = "fit_transform"
    /\ tcall.ok
    /\ \E i, j \in 1..Len(TLog) : TLog[i].e = "transform" /\ TLog[j].e = "fit_transform"

\* C2: fit_transform on a step whose output is in tmp/ and that is not
\* force_fitting returns that payload: the call does nothing but load it
\* (no predecessor is called, no transformer is loaded, fitted or used, no
\* file is written), and the same holds of every step reached in a call.
C2_CachedOutputReturned ==
    /\ ( /\ tcall.op = "fit_transform"
         /\ TName(tcall.sid) \in DOMAIN tcall.pre.Tmp
         /\ ~steps[tcall.sid].force_fitting )
       => /\ tcall.ok
          /\ tcall.out = tcall.pre.Tmp[TName(tcall.sid)]
          /\ Len(TLog) = 2
          /\ TLog[1].e = "call" /\ TLog[1].sid = tcall.sid
          /\ TLog[2].e = "load_output" /\ TLog[2].sid = tcall.sid /\ TLog[2].x = "tmp"
          /\ fsT = tcall.pre.T /\ fsTmp = tcall.pre.Tmp /\ fsOut = tcall.pre.Out
    /\ tcall.op = "fit_transform" =>
          \A i \in 1..Len(TLog) :
              ( /\ TLog[i].e = "call"
                /\ CachedAt(i, TLog[i].n)
                /\ ~steps[TLog[i].sid].force_fitting )
              => /\ i < Len(TLog)
                 /\ TLog[i + 1].e = "load_output"
                 /\ TLog[i + 1].sid = TLog[i].sid
                 /\ TLog[i + 1].x = "tmp"

\* fit_transform was called on a step with input steps whose output was
\* cached from other data than the data of the call
C2_Witness ==
    /\ tcall.op = "fit_transform"
    /\ TName(tcall.sid) \in DOMAIN tcall.pre.Tmp
    /\ ~steps[tcall.sid].force_fitting
    /\ steps[tcall.sid].input_steps # <<>>
    /\ tcall.pre.T # EmptyDict

\* the case of C3: transform on a step with no cached output, no saved
\* output it would load, and no artifact under its name
NothingToLoad ==
    /\ tcall.op = "transform"
    /\ TName(tcall.sid) \notin DOMAIN tcall.pre.Tmp
    /\ ~( /\ TName(tcall.sid) \in DOMAIN tcall.pre.Out
          /\ steps[tcall.sid].load_saved_output )
    /\ TName(tcall.sid) \notin DOMAIN tcall.pre.T

\* C3 as claimed: such a call raises ValueError, invokes no fit and leaves
\* no artifact for the step.
C3_AsClaimed ==
    NothingToLoad =>
        /\ ~tcall.ok
        /\ tcall.err.type = "ValueError"
        /\ ~FitInvoked
        /\ TName(tcall.sid) \notin DOMAIN fsT

\* C3, amended: when the step's transformer is an ordinary transformer, such
\* a call returns no payload, invokes no fit and leaves no artifact for the
\* step; it raises the ValueError of the step itself unless an error came
\* first while the inputs were gathered (raised by an upstream step, or the
\* StepsError of the step's own unpacking or adapting, or the KeyError of
\* external data that lacks an input).
C3_NotFittedOrEarlierError ==
    (NothingToLoad /\ tcall.pre.steps[tcall.sid].transformer.kind = "obj") =>
        /\ ~tcall.ok
        /\ ~FitInvoked
        /\ TName(tcall.sid) \notin DOMAIN fsT
        /\ \/ tcall.err.type = "ValueError" /\ tcall.err.step = TName(tcall.sid)
           \/ tcall.err.step # TName(tcall.sid)
           \/ tcall.err.type \in {"StepsError", "KeyError"}

\* transform raised the ValueError of a step whose upstream steps had been
\* fitted and were transformed with in the call
C3_Witness ==
    /\ NothingToLoad
    /\ tcall.pre.steps[tcall.sid].transformer.kind = "obj"
    /\ tcall.err.type = "ValueError"
    /\ tcall.err.step = TName(tcall.sid)
    /\ \E i \in 1..Len(TLog) : TLog[i].e = "transform"

\* the keys that two or more of the gathered inputs have
Colliding(step_inputs) ==
    {k \in UNION {DOMAIN step_inputs[i][2] : i \in 1..Len(step_inputs)} :
        \E i, j \in 1..Len(step_inputs) :
            i # j /\ k \in DOMAIN step_inputs[i][2] /\ k \in DOMAIN step_inputs[j][2]}

\* the names of the inputs that have key k
SourcesOf(step_inputs, k) ==
    {step_inputs[i][1] : i \in {j \in 1..Len(step_inputs) : k \in DOMAIN step_inputs[j][2]}}

\* C9: when a step without adapter has gathered inputs of which two or more
\* have the same key, the call ends there with a StepsError of that step
\* that lists every such key with the inputs that have it; the transformer
\* is not reached.
C9_CollisionRaises ==
    \A i \in 1..Len(TLog) :
        ( /\ TLog[i].e = "gathered"
          /\ steps[TLog[i].sid].adapter.kind = "none"
          /\ Colliding(TLog[i].arg) # {} )
        => /\ ~tcall.ok
           /\ i = Len(TLog)
           /\ tcall.err.type = "StepsError"
           /\ tcall.err.step = TLog[i].n
           /\ \A k \in Colliding(TLog[i].arg) :
                 \E pair \in tcall.err.keys :
                     /\ pair[1] = k
                     /\ {pair[2][x] : x \in 1..Len(pair[2])} = SourcesOf(TLog[i].arg, k)

\* the ids of the steps of the ancestor closure of step sid, sid included
RECURSIVE ClosureOf(_, _)
ClosureOf(stps, sid) ==
    UNION {ClosureOf(stps, stps[sid].input_steps[i]) :
              i \in 1..Len(stps[sid].input_steps)} \cup {sid}

\* whether the step had a persisted transformer before the call: the
\* artifact under its name, or, for a step whose transformer is another
\* Step, the artifact of that Step
PersistedBefore(sid) ==
    LET self == tcall.pre.steps[sid]
    IN  \/ self.name \in DOMAIN tcall.pre.T
        \/ /\ self.transformer.kind = "step"
           /\ tcall.pre.steps[self.transformer.id].name \in DOMAIN tcall.pre.T

\* the steps of the closure of the called step without persisted transformer
Unpersisted == {s \in ClosureOf(tcall.pre.steps, tcall.sid) : ~PersistedBefore(s)}

\* C12 as claimed: transform on a step whose closure has a step without
\* persisted transformer raises the ValueError of a step that is not fitted
C12_AsClaimed ==
    (tcall.op = "transform" /\ Unpersisted # {}) =>
        ~tcall.ok /\ tcall.err.type = "ValueError"

\* C12 amended: such a call returns no payload and fits nothing; it raises
\* the ValueError of a step of the closure without persisted transformer,
\* or the FileNotFoundError of a step of the closure that takes its
\* transformer from a Step without artifact, or the StepsError of a step
\* of the closure whose gathered inputs could not be unpacked or adapted
C12_UnfittedClosureRaises ==
    (tcall.op = "transform" /\ Unpersisted # {}) =>
        /\ ~tcall.ok
        /\ ~FitInvoked
        /\ \E s \in ClosureOf(tcall.pre.steps, tcall.sid) :
              /\ tcall.err.step = TName(s)
              /\ \/ tcall.err.type = "ValueError" /\ s \in Unpersisted
                 \/ /\ tcall.err.type = "FileNotFoundError"
                    /\ s \in Unpersisted
                    /\ tcall.pre.steps[s].transformer.kind = "step"
                 \/ tcall.err.type = "StepsError"

\* transform raised by an upstream step without artifact, after other
\* upstream steps, which had theirs, were transformed with
C12_Witness ==
    /\ tcall.op = "transform"
    /\ Unpersisted # {}
    /\ ClosureOf(tcall.pre.steps, tcall.sid) \ Unpersisted # {}
    /\ tcall.err.type = "ValueError"
    /\ tcall.err.step # TName(tcall.sid)
    /\ \E i \in 1..Len(TLog) : TLog[i].e = "transform"

\* how many times a log has the transformer of step sid transform
TransformsOf(log, sid) ==
    Cardinality({i \in 1..Len(log) : log[i].e = "transform" /\ log[i].sid = sid})

\* the case of C13: the last call was transform on a step that caches its
\* output and had its transformer artifact
TransformOfCachingStep ==
    /\ tcall.op = "transform"
    /\ tcall.pre.steps[tcall.sid].cache_output
    /\ TName(tcall.sid) \in DOMAIN tcall.pre.T

\* the step had, before the call, an output that transform returns as it is
StoredBefore(sid) ==
    \/ TName(sid) \in DOMAIN tcall.pre.Tmp
    \/ TName(sid) \in DOMAIN tcall.pre.Out /\ tcall.pre.steps[sid].load_saved_output

\* C13 as claimed: the same transform made once more returns the same
\* payload, and the transformer of the step was made to transform exactly
\* once in the two calls together
C13_AsClaimed ==
    TransformOfCachingStep =>
        \A r \in {Transform(CallState, tcall.sid, Data(tcall.d))} :
            /\ tcall.ok /\ r.ok
            /\ r.out = tcall.out
            /\ TransformsOf(TLog, tcall.sid) + TransformsOf(r.st.log, tcall.sid) = 1

\* C13 amended: the same transform made once more returns the same payload
\* without making the transformer of the step transform; the first of the
\* two calls made it transform once when the step had no cached output and
\* no saved output to load, and not at all when it had one
C13_SecondTransformLoads ==
    TransformOfCachingStep =>
        \A r \in {Transform(CallState, tcall.sid, Data(tcall.d))} :
            /\ tcall.ok /\ r.ok
            /\ r.out = tcall.out
            /\ TransformsOf(r.st.log, tcall.sid) = 0
            /\ TransformsOf(TLog, tcall.sid) = (IF StoredBefore(tcall.sid) THEN 0 ELSE 1)

\* transform on a caching step with input steps and nothing stored made
\* the transformers transform and cached the output, which the same call
\* made once more does nothing but load
C13_Witness ==
    /\ TransformOfCachingStep
    /\ ~StoredBefore(tcall.sid)
    /\ steps[tcall.sid].input_steps # <<>>
    /\ TransformsOf(TLog, tcall.sid) = 1
    /\ TName(tcall.sid) \in DOMAIN fsTmp
    /\ \A r \in {Transform(CallState, tcall.sid, Data(tcall.d))} :
          /\ r.ok /\ r.out = tcall.out
          /\ Len(r.st.log) = 2 /\ r.st.log[2].e = "load_output"

\* how many times the call had the transformer of step sid fit or transform
ExecutionsOf(sid) ==
    Cardinality({i \in 1..Len(TLog) :
                    TLog[i].e \in {"fit_transform", "transform"} /\ TLog[i].sid = sid})

\* the number of paths along input_steps from step `from` up to step `to`
RECURSIVE PathsTo(_, _, _)
RECURSIVE PathsThrough(_, _, _, _)
PathsTo(stps, from, to) ==
    IF from = to THEN 1 ELSE PathsThrough(stps, from, to, Len(stps[from].input_steps))

PathsThrough(stps, from, to, i) ==
    IF i = 0 THEN 0
    ELSE PathsTo(stps, stps[from].input_steps[i], to) + PathsThrough(stps, from, to, i - 1)

\* the last call was fit_transform or transform and it returned
CallReturned == tcall.op \in {"fit_transform", "transform"} /\ tcall.ok

\* no step of the closure of the called step keeps or loads outputs
NothingKept ==
    \A s \in ClosureOf(tcall.pre.steps, tcall.sid) :
        /\ ~steps[s].cache_output
        /\ ~steps[s].load_saved_output
        /\ TName(s) \notin DOMAIN tcall.pre.Tmp

\* C14 as claimed: a call that returns has executed every step of the
\* closure of the called step exactly once
C14_AsClaimed ==
    CallReturned =>
        \A s \in ClosureOf(tcall.pre.steps, tcall.sid) : ExecutionsOf(s) = 1

\* C14 amended: a call that returns has executed the called step at most
\* once and every step of its closure at most once for each path that
\* leads to it; a step that caches its output and is not force_fitting at
\* most once; and, when no step of the closure keeps or loads outputs,
\* every step exactly once for each path, the source of a diamond twice
C14_ExecutedOncePerPath ==
    CallReturned =>
        /\ ExecutionsOf(tcall.sid) <= 1
        /\ \A s \in ClosureOf(tcall.pre.steps, tcall.sid) :
              /\ ExecutionsOf(s) <= PathsTo(tcall.pre.steps, tcall.sid, s)
              /\ (steps[s].cache_output /\ ~steps[s].force_fitting) => ExecutionsOf(s) <= 1
              /\ NothingKept => ExecutionsOf(s) = PathsTo(tcall.pre.steps, tcall.sid, s)
        /\ \A s \in (DOMAIN steps) \ ClosureOf(tcall.pre.steps, tcall.sid) :
              ExecutionsOf(s) = 0

\* fit_transform on the sink of the diamond fitted the source for one
\* branch and loaded and transformed with it again for the other
C14_Witness ==
    /\ CallReturned
    /\ tcall.op = "fit_transform"
    /\ DOMAIN steps = {"a", "b", "c", "d"}
    /\ tcall.sid = "d"
    /\ NothingKept
    /\ ExecutionsOf("a") = 2
    /\ ExecutionsOf("b") = 1 /\ ExecutionsOf("c") = 1 /\ ExecutionsOf("d") = 1
    /\ \E i, j \in 1..Len(TLog) :
          /\ i < j
          /\ TLog[i].sid = "a" /\ TLog[i].e = "fit_transform"
          /\ TLog[j].sid = "a" /\ TLog[j].e = "transform"

IsFitOrTransform == tcall.op \in {"fit_transform", "transform"}

\* C15 as claimed: a call starts with an empty cache, so whatever it loads
\* from tmp was cached earlier in the same call
C15_AsClaimed ==
    IsFitOrTransform =>
        \A i \in 1..Len(TLog) :
            (TLog[i].e = "load_output" /\ TLog[i].x = "tmp") =>
                \E j \in 1..(i - 1) :
                    /\ TLog[j].e = "save_output" /\ TLog[j].x = "tmp"
                    /\ TLog[j].n = TLog[i].n

\* C15 amended: fit_transform and transform remove nothing from the cache;
\* a call on a step whose output was cached before it (for fit_transform:
\* a step that is not force_fitting) returns that payload, whatever the
\* data of the call, and leaves the cache as it was
C15_CacheOutlivesCalls ==
    IsFitOrTransform =>
        /\ DOMAIN tcall.pre.Tmp \subseteq DOMAIN fsTmp
        /\ ( /\ TName(tcall.sid) \in DOMAIN tcall.pre.Tmp
             /\ tcall.op = "transform" \/ ~steps[tcall.sid].force_fitting )
           => /\ tcall.ok
              /\ tcall.out = tcall.pre.Tmp[TName(tcall.sid)]
              /\ fsTmp = tcall.pre.Tmp

\* transform with the second dataset returned a payload of the first
\* dataset, cached by an earlier call
C15_Witness ==
    /\ tcall.op = "transform"
    /\ tcall.d = 2
    /\ TName(tcall.sid) \in DOMAIN tcall.pre.Tmp
    /\ tcall.ok
    /\ tcall.out # EmptyDict
    /\ \A k \in DOMAIN tcall.out : tcall.out[k] \in {Array(n) : n \in 10..19}

\* whether outputs/name exists when entry i of the log is made
SavedAt(i, name) ==
    \/ name \in DOMAIN tcall.pre.Out
    \/ \E j \in 1..(i - 1) :
          TLog[j].n = name /\ TLog[j].e = "save_output" /\ TLog[j].x = "outputs"

\* entry i of the log is the start of method `method` on a step that is
\* force_fitting
ForcedCallAt(i, method) ==
    /\ TLog[i].e = "call"
    /\ TLog[i].x = method
    /\ steps[TLog[i].sid].force_fitting

\* the entry after entry i is the loading of an output from directory dir
\* by the same step
LoadsNext(i, dir) ==
    /\ i < Len(TLog)
    /\ TLog[i + 1].e = "load_output"
    /\ TLog[i + 1].sid = TLog[i].sid
    /\ TLog[i + 1].x = dir

\* C16 as claimed: a step that is force_fitting never loads an output,
\* cached or saved, whichever method reaches it
C16_AsClaimed ==
    \A i \in 1..Len(TLog) :
        (ForcedCallAt(i, "fit_transform") \/ ForcedCallAt(i, "transform")) =>
            ~LoadsNext(i, "tmp") /\ ~LoadsNext(i, "outputs")

\* C16 amended: reached by fit_transform, a step that is force_fitting
\* loads no output: it gathers its inputs and, when they are gathered and
\* unpacked, has its transformer fitted; reached by transform, it returns
\* its cached output when there is one, and else its saved output when
\* there is one and load_saved_output is set, as any other step does
C16_ForceFittingOnFitOnly ==
    \A i \in 1..Len(TLog) :
        /\ ForcedCallAt(i, "fit_transform") =>
              /\ ~LoadsNext(i, "tmp") /\ ~LoadsNext(i, "outputs")
              /\ \A j \in (i + 1)..Len(TLog) :
                    (TLog[j].e = "gathered" /\ TLog[j].sid = TLog[i].sid /\ j < Len(TLog))
                    => \E k \in {j + 1, j + 2} :
                          /\ k <= Len(TLog)
                          /\ TLog[k].e = "fit_transform" /\ TLog[k].sid = TLog[i].sid
        /\ ForcedCallAt(i, "transform") =>
              /\ CachedAt(i, TLog[i].n) => LoadsNext(i, "tmp")
              /\ ( /\ ~CachedAt(i, TLog[i].n)
                   /\ SavedAt(i, TLog[i].n)
                   /\ steps[TLog[i].sid].load_saved_output ) => LoadsNext(i, "outputs")

\* transform on a step that is force_fitting returned the output cached
\* by an earlier call without gathering inputs
C16_Witness ==
    /\ tcall.op = "transform"
    /\ steps[tcall.sid].force_fitting
    /\ steps[tcall.sid].input_steps # <<>>
    /\ TName(tcall.sid) \in DOMAIN tcall.pre.Tmp
    /\ tcall.ok
    /\ Len(TLog) = 2
    /\ LoadsNext(1, "tmp")

\* C17: a step reached by fit_transform or transform returns its saved
\* output instead of executing exactly when it has no cached output, has a
\* saved output, load_saved_output is set and, reached by fit_transform,
\* force_fitting is not set; the called step then returns the payload of
\* the file; a step whose load_saved_output is not set never loads one
C17_SavedOutputLoadedOnlyWhenAsked ==
    /\ \A i \in 1..Len(TLog) :
          TLog[i].e = "call" =>
              ( LoadsNext(i, "outputs")
                <=> /\ ~CachedAt(i, TLog[i].n)
                    /\ SavedAt(i, TLog[i].n)
                    /\ steps[TLog[i].sid].load_saved_output
                    /\ TLog[i].x = "fit_transform" => ~steps[TLog[i].sid].force_fitting )
    /\ \A i \in 1..Len(TLog) :
          (TLog[i].e = "load_output" /\ TLog[i].x = "outputs") =>
              /\ steps[TLog[i].sid].load_saved_output
              /\ i > 1 /\ TLog[i - 1].e = "call" /\ TLog[i - 1].sid = TLog[i].sid
    /\ (IsFitOrTransform /\ LoadsNext(1, "outputs")) =>
          /\ tcall.ok
          /\ tcall.out = tcall.pre.Out[TName(tcall.sid)]
          /\ Len(TLog) = 2

\* a call with the second dataset returned the output saved from the
\* first dataset, on a step that has input steps and a saved output but no
\* cached one
C17_Witness ==
    /\ IsFitOrTransform
    /\ tcall.d = 2
    /\ LoadsNext(1, "outputs")
    /\ steps[tcall.sid].input_steps # <<>>
    /\ steps[tcall.sid].save_output
    /\ tcall.out # EmptyDict
    /\ \A k \in DOMAIN tcall.out : tcall.out[k] \in {Array(n) : n \in 10..19}

BuiltWith(sid) ==
    (CHOOSE p \in Pipelines(engine) : DOMAIN p = DOMAIN steps)[sid].transformer

\* the last call was made on a step built with another Step as transformer
CalledSharing ==
    /\ IsFitOrTransform
    /\ BuiltWith(tcall.sid).kind = "step"

\* the call had the called step load its artifact, or fit its transformer
LoadedOwnArtifact == \E i \in 1..Len(TLog) : TLog[i].sid = tcall.sid /\ TLog[i].e = "load"

FittedOwnTransformer ==
    \E i \in 1..Len(TLog) : TLog[i].sid = tcall.sid /\ TLog[i].e = "fit_transform"

\* C19: whenever a step built with Step S as transformer loads the
\* artifact under its own name, that artifact is the artifact S has at
\* that time
C19_LoadsArtifactOfSource ==
    (CalledSharing /\ LoadedOwnArtifact) =>
        /\ TName(BuiltWith(tcall.sid).id) \in DOMAIN tcall.pre.T
        /\ fsT[TName(tcall.sid)] = tcall.pre.T[TName(BuiltWith(tcall.sid).id)]

\* C20: a call on a step built with another Step as transformer, and not
\* force_fitting, never has the transformer fitted, whatever calls were
\* made before
C20_SharingNeverFits ==
    (CalledSharing /\ ~steps[tcall.sid].force_fitting) => ~FittedOwnTransformer

-----------------------------------------------------------------------------
(* C21: a fit_transform that raises after some steps were executed.        *)

\* the steps a log shows as executed to the end: they transformed, fitted
\* and saved, or loaded a kept output
CompletedIn(log) ==
    {log[i].sid : i \in {j \in 1..Len(log) :
                            log[j].e \in {"transform", "save", "load_output"}}}

FailedFit == tcall.op = "fit_transform" /\ ~tcall.ok

\* the log has the transformer of step sid fitted
FitsIn(log, sid) == \E i \in 1..Len(log) : log[i].sid = sid /\ log[i].e = "fit_transform"

\* the log has the transformer of step sid transform or fit
RanIn(log, sid) ==
    \E i \in 1..Len(log) : log[i].sid = sid /\ log[i].e \in {"transform", "fit_transform"}

\* the transformer artifacts of the executed steps, the outputs kept by
\* those whose transformer ran, and the files there were before the
\* call are there after the call, and the call returned no payload
NothingRolledBack ==
    /\ tcall.out = EmptyDict
    /\ DOMAIN tcall.pre.T \subseteq DOMAIN fsT
    /\ DOMAIN tcall.pre.Tmp \subseteq DOMAIN fsTmp
    /\ DOMAIN tcall.pre.Out \subseteq DOMAIN fsOut
    /\ \A s \in CompletedIn(TLog) :
          /\ TName(s) \in DOMAIN fsT
          /\ RanIn(TLog, s) /\ steps[s].cache_output => TName(s) \in DOMAIN fsTmp
          /\ RanIn(TLog, s) /\ steps[s].save_output => TName(s) \in DOMAIN fsOut

-----------------------------------------------------------------------------
(* C22: the names of the steps of one pipeline.                            *)

\* the last call was Step(...) with a name that a step upstream of the new
\* step has
BuiltColliding ==
    /\ tcall.op = "Step"
    /\ \E i \in 1..Len(TLog[1].arg) :
          \E s \in ClosureOf(tcall.pre.steps, TLog[1].arg[i]) :
             tcall.pre.steps[s].name = TLog[1].n

\* C22: Step(...) with the name of a step upstream of the new step raises a
\* configuration error, and no two steps of which one is upstream of the
\* other have the same name, so that none finds the other's files under
\* its own name
C22_CollidingNameRejected ==
    /\ BuiltColliding => (~tcall.ok /\ tcall.err.type = "ConfigurationError")
    /\ \A s \in DOMAIN steps : \A t \in ClosureOf(steps, s) \ {s} :
          steps[s].name # steps[t].name
    /\ \A i \in 1..Len(TLog) :
          (TLog[i].e = "load" /\ TLog[i].n \notin DOMAIN tcall.pre.T) =>
             \E j \in 1..(i - 1) :
                TLog[j].e \in {"save", "copy"} /\ TLog[j].sid = TLog[i].sid

-----------------------------------------------------------------------------
(* C27 to C30: what a Step with an adapter hands to its transformer.  The  *)
(* transformer returns its arguments, so that the payload a fit_transform  *)
(* returns is the adapted mapping.                                         *)

\* the adapter dict of the called step, and its keys
RecipesOf(sid) == steps[sid].adapter.adapting_recipes

RecipeKeys(sid) == {RecipesOf(sid)[i][1] : i \in 1..Len(RecipesOf(sid))}

RecipeAt(sid, k) == (CHOOSE it \in {RecipesOf(sid)[i] : i \in 1..Len(RecipesOf(sid))} :
                        it[1] = k)[2]

\* the last call was fit_transform on a step built with an adapter
FitWithAdapter == tcall.op = "fit_transform" /\ steps[tcall.sid].adapter.kind = "adapter"

\* a reference to a field that the gathered inputs of the called step have
IsFieldRef(r) ==
    /\ r.kind = "element"
    /\ \E i \in 1..Len(steps[tcall.sid].input_data) :
          steps[tcall.sid].input_data[i] = r.input_name
    /\ r.input_name \in DOMAIN Data(tcall.d)
    /\ r.key \in DOMAIN Data(tcall.d)[r.input_name]

\* the field a reference names
FieldOf(r) == Data(tcall.d)[r.input_name][r.key]

\* C27: a step whose adapter maps names to references (source name, field
\* key) of fields the gathered inputs have hands its transformer, under
\* each name, exactly the value of the field in the payload of the source
C27_FieldReferenceResolves ==
    (/\ FitWithAdapter
     /\ RecipesOf(tcall.sid) # <<>>
     /\ \A k \in RecipeKeys(tcall.sid) : IsFieldRef(RecipeAt(tcall.sid, k))) =>
        /\ tcall.ok
        /\ DOMAIN tcall.out = RecipeKeys(tcall.sid)
        /\ \A k \in RecipeKeys(tcall.sid) : tcall.out[k] = FieldOf(RecipeAt(tcall.sid, k))


\* a list of references to fields the gathered inputs have, paired with a
\* function
IsReduction(r) ==
    /\ r.kind = "tuple" /\ Len(r.items) = 2
    /\ r.items[1].kind = "list" /\ r.items[2].kind = "function"
    /\ \A i \in 1..Len(r.items[1].items) : IsFieldRef(r.items[1].items[i])

\* the fields a list of references names, in the order of the list
FieldsOf(lst) == [i \in 1..Len(lst.items) |-> FieldOf(lst.items[i])]

\* the function of a reduction applied to the fields of its list
Reduced(r) ==
    IF r.items[2].name = "sum" THEN Array(Sum(FieldsOf(r.items[1])))
    ELSE FieldsOf(r.items[1])[1]

\* the last call was fit_transform on a step whose adapter maps every name
\* to a reduction
FitWithReductions ==
    /\ FitWithAdapter
    /\ RecipesOf(tcall.sid) # <<>>
    /\ \A k \in RecipeKeys(tcall.sid) : IsReduction(RecipeAt(tcall.sid, k))

IsFieldList(r) ==
    /\ r.kind = "list"
    /\ \A i \in 1..Len(r.items) : IsFieldRef(r.items[i])

\* the last call was fit_transform on a step whose adapter maps every name
\* to a list of field references
FitWithFieldLists ==
    /\ FitWithAdapter
    /\ RecipesOf(tcall.sid) # <<>>
    /\ \A k \in RecipeKeys(tcall.sid) : IsFieldList(RecipeAt(tcall.sid, k))

\* C29: a recipe that is a list of n field references, n >= 0, resolves to
\* the list of exactly n values whose i-th value is the field the i-th
\* reference names
C29_ListOfFields ==
    FitWithFieldLists =>
        /\ tcall.ok
        /\ \A k \in RecipeKeys(tcall.sid) :
              tcall.out[k] = Lst(FieldsOf(RecipeAt(tcall.sid, k)))


\* the gathered inputs that the last call handed to the adapter of the
\* called step
GatheredInputs ==
    TLog[CHOOSE i \in 1..Len(TLog) :
            TLog[i].e = "gathered" /\ TLog[i].sid = tcall.sid].arg

\* the last call was fit_transform on a step with an adapter, it adapted
\* the gathered inputs and returned what its transformer made of them: the
\* transformers return their arguments.  steps takes an empty dict for no
\* adapter (`if self.adapter:`).
AdaptedAndRan ==
    /\ FitWithAdapter /\ tcall.ok
    /\ engine = "steps" => RecipesOf(tcall.sid) # <<>>
    /\ \E i \in 1..Len(TLog) : TLog[i].e = "gathered" /\ TLog[i].sid = tcall.sid

\* what the recipe under k resolves to when it is the only recipe of the
\* adapter
ResolvedAlone(k) ==
    The({ IF engine = "steppy" THEN AdapterAdapt(alone, GatheredInputs)
          ELSE StepsAdapt(alone, GatheredInputs) :
          alone \in {Adapter(<< <<k, RecipeAt(tcall.sid, k)>> >>)} })

\* C30: a step with an adapter passes its transformer exactly the names the
\* adapter declares, each with what its recipe resolves to from the
\* gathered inputs alone, whatever the other recipes are
C30_DeclaredNamesOnly ==
    AdaptedAndRan =>
        /\ DOMAIN tcall.out = RecipeKeys(tcall.sid)
        /\ \A k \in RecipeKeys(tcall.sid) :
              ResolvedAlone(k).ok /\ tcall.out[k] = ResolvedAlone(k).val[k]

\* a step adapted two recipes of different kinds into two arguments
C30_Witness ==
    /\ AdaptedAndRan
    /\ RecipesOf(tcall.sid) = << <<"X", Lst(<<E1>>)>>, <<"Y", Str("input_1")>> >>
    /\ DOMAIN tcall.out = {"X", "Y"}
    /\ tcall.out.X # tcall.out.Y


\* the last call was fit_transform or transform on a step that gathered its
\* inputs and whose adapter holds only field references, one of which
\* names an input that was not gathered or a key that its input does not
\* have
AdaptsMissingField ==
    /\ IsFitOrTransform
    /\ steps[tcall.sid].adapter.kind = "adapter"
    /\ RecipesOf(tcall.sid) # <<>>
    /\ \A k \in RecipeKeys(tcall.sid) : RecipeAt(tcall.sid, k).kind = "element"
    /\ \E i \in 1..Len(TLog) : TLog[i].e = "gathered" /\ TLog[i].sid = tcall.sid
    /\ \E k \in RecipeKeys(tcall.sid) :
          \/ ~OHas(GatheredInputs, RecipeAt(tcall.sid, k).input_name)
          \/ RecipeAt(tcall.sid, k).key \notin
                DOMAIN OGet(GatheredInputs, RecipeAt(tcall.sid, k).input_name)

\* the transformer of the called step was used in the last call
TransformerInvoked ==
    \E i \in 1..Len(TLog) :
        TLog[i].sid = tcall.sid /\ TLog[i].e \in {"fit_transform", "transform", "load"}

\* the file of a name in a directory, if there is one
FileOf(dir, name) == IF name \in DOMAIN dir THEN <<dir[name]>> ELSE <<>>

\* the last call wrote a file of the called step
WroteFiles ==
    \/ \E i \in 1..Len(TLog) :
          TLog[i].sid = tcall.sid /\ TLog[i].e \in {"save", "copy", "save_output"}
    \/ FileOf(fsT, TName(tcall.sid)) # FileOf(tcall.pre.T, TName(tcall.sid))
    \/ FileOf(fsTmp, TName(tcall.sid)) # FileOf(tcall.pre.Tmp, TName(tcall.sid))
    \/ FileOf(fsOut, TName(tcall.sid)) # FileOf(tcall.pre.Out, TName(tcall.sid))

\* C31: with steppy's Adapter, a field reference to an input that was not
\* gathered, or to a key its input does not have, fails with an
\* AdapterError; the call of the step raises a StepsError that names the
\* step, its transformer is not used and nothing is written
C31_MissingFieldRaisesStepsError ==
    (engine = "steppy" /\ AdaptsMissingField) =>
        /\ ~AdapterAdapt(steps[tcall.sid].adapter, GatheredInputs).ok
        /\ AdapterAdapt(steps[tcall.sid].adapter, GatheredInputs).err.type = "AdapterError"
        /\ ~tcall.ok
        /\ tcall.err.type = "StepsError"
        /\ tcall.err.step = TName(tcall.sid)
        /\ ~TransformerInvoked
        /\ ~WroteFiles


\* transform on a step of steppy whose adapter names a field of input_1 and
\* a key that input_1 does not have raised a StepsError
C31_Witness ==
    /\ engine = "steppy" /\ AdaptsMissingField
    /\ tcall.op = "transform"
    /\ RecipesOf(tcall.sid) = << <<"X", E1>>, <<"Y", E("input_1", "images")>> >>
    /\ ~tcall.ok /\ tcall.err.type = "StepsError"
    /\ tcall.err.step = TName(tcall.sid)


\* the last call returned from a step without adapter that gathered inputs
\* step_inputs of which no two have a key in common, and ran its
\* transformer on them
UnpackedDisjoint(step_inputs) ==
    /\ IsFitOrTransform /\ tcall.ok
    /\ steps[tcall.sid].adapter.kind = "none"
    /\ \E i \in 1..Len(TLog) :
          TLog[i].e = "gathered" /\ TLog[i].sid = tcall.sid /\ TLog[i].arg = step_inputs
    /\ Colliding(step_inputs) = {}
    /\ TransformerInvoked

\* C32: a step without adapter whose gathered inputs have pairwise disjoint
\* keys hands its transformer the union of their payloads: the keys of
\* every input, each with the value it has there, and no other key.  The
\* transformers return their arguments.
C32_DisjointInputsMerged ==
    \A step_inputs \in {TLog[i].arg : i \in 1..Len(TLog)} :
        UnpackedDisjoint(step_inputs) =>
            /\ DOMAIN tcall.out =
                  UNION {DOMAIN step_inputs[j][2] : j \in 1..Len(step_inputs)}
            /\ \A j \in 1..Len(step_inputs) :
                  \A k \in DOMAIN step_inputs[j][2] :
                      tcall.out[k] = step_inputs[j][2][k]

\* a step without adapter received the keys of two inputs
C32_Witness ==
    \E step_inputs \in {TLog[i].arg : i \in 1..Len(TLog)} :
        /\ UnpackedDisjoint(step_inputs)
        /\ Len(step_inputs) >= 2
        /\ \A j \in 1..Len(step_inputs) : DOMAIN step_inputs[j][2] # {}
        /\ DOMAIN tcall.out = UNION {DOMAIN step_inputs[j][2] : j \in 1..Len(step_inputs)}


\* entry i of the log is a step running its transformer
Executed(i) == TLog[i].e \in {"fit_transform", "transform"}

\* entries i < j of the log are of the same step in the same visit: the
\* step's method was not called again in between
SameVisit(i, j) ==
    /\ i < j /\ TLog[j].sid = TLog[i].sid
    /\ \A m \in (i + 1)..j : ~(TLog[m].sid = TLog[i].sid /\ TLog[m].e = "call")

\* the step of entry i writes its output to directory dir later in the visit
WritesOutput(i, dir) ==
    \E j \in 1..Len(TLog) :
        SameVisit(i, j) /\ TLog[j].e = "save_output" /\ TLog[j].x = dir

\* the step of entry i writes some file later in the visit
WritesLater(i) ==
    \E j \in 1..Len(TLog) :
        SameVisit(i, j) /\ TLog[j].e \in {"save_output", "save", "copy"}

\* the names of the files of the three directories, before or after the call
FileNames ==
    DOMAIN fsT \cup DOMAIN fsTmp \cup DOMAIN fsOut
    \cup DOMAIN tcall.pre.T \cup DOMAIN tcall.pre.Tmp \cup DOMAIN tcall.pre.Out

\* a step named name ran its transformer in the last call and has the flag
\* that keeps its output in directory dir
RanKeeping(name, dir) ==
    \E i \in 1..Len(TLog) :
        /\ TLog[i].n = name /\ Executed(i)
        /\ IF dir = "tmp" THEN steps[TLog[i].sid].cache_output
           ELSE steps[TLog[i].sid].save_output

\* what the flags say of the outputs: a step that runs its transformer
\* writes its output to tmp exactly when it is cache_output and to outputs
\* exactly when it is save_output; a step that loaded an output writes
\* nothing in that visit; no other file of tmp or outputs changes
OutputsWrittenAsFlagged ==
    /\ \A i \in 1..Len(TLog) :
          /\ Executed(i) =>
                /\ WritesOutput(i, "tmp") <=> steps[TLog[i].sid].cache_output
                /\ WritesOutput(i, "outputs") <=> steps[TLog[i].sid].save_output
          /\ TLog[i].e = "save_output" =>
                \E j \in 1..Len(TLog) : Executed(j) /\ SameVisit(j, i)
          /\ TLog[i].e = "load_output" => ~WritesLater(i)
    /\ \A name \in FileNames :
          /\ RanKeeping(name, "tmp") => name \in DOMAIN fsTmp
          /\ RanKeeping(name, "outputs") => name \in DOMAIN fsOut
          /\ FileOf(fsTmp, name) # FileOf(tcall.pre.Tmp, name) => RanKeeping(name, "tmp")
          /\ FileOf(fsOut, name) # FileOf(tcall.pre.Out, name) => RanKeeping(name, "outputs")

\* C33 as claimed: outputs are written as the flags say, and a transformer
\* artifact is written on the fitting path only
C33_AsClaimed ==
    IsFitOrTransform =>
        /\ OutputsWrittenAsFlagged
        /\ \A i \in 1..Len(TLog) :
              TLog[i].e \in {"save", "copy"} => tcall.op = "fit_transform"
        /\ \A name \in FileNames :
              FileOf(fsT, name) # FileOf(tcall.pre.T, name) => tcall.op = "fit_transform"

\* C33 amended: outputs are written as the flags say; a step saves the
\* artifact of its transformer only after fitting it, in fit_transform; a
\* step built with another Step as transformer copies that Step's artifact
\* under its own name in fit_transform and in transform alike
C33_OutputsAsFlagged ==
    IsFitOrTransform =>
        /\ OutputsWrittenAsFlagged
        /\ \A i \in 1..Len(TLog) :
              /\ TLog[i].e = "save" =>
                    /\ tcall.op = "fit_transform"
                    /\ i > 1 /\ TLog[i - 1].e = "fit_transform"
                    /\ TLog[i - 1].sid = TLog[i].sid
              /\ TLog[i].e = "copy" => BuiltWith(TLog[i].sid).kind = "step"
        /\ \A name \in FileNames :
              FileOf(fsT, name) # FileOf(tcall.pre.T, name) =>
                  \E i \in 1..Len(TLog) : TLog[i].n = name /\ TLog[i].e \in {"save", "copy"}

\* transform on a step with both flags on that had no cached output ran
\* its transformer and wrote its output to tmp and to outputs, and an input
\* step of it with both flags off wrote nothing
C33_Witness ==
    /\ tcall.op = "transform" /\ tcall.ok
    /\ steps[tcall.sid].cache_output /\ steps[tcall.sid].save_output
    /\ TName(tcall.sid) \notin DOMAIN tcall.pre.Tmp
    /\ TName(tcall.sid) \in DOMAIN fsTmp \cap DOMAIN fsOut
    /\ \E i \in 1..Len(TLog) :
          /\ Executed(i) /\ TLog[i].sid = tcall.sid
          /\ WritesOutput(i, "tmp") /\ WritesOutput(i, "outputs")
    /\ \E i \in 1..Len(TLog) :
          /\ Executed(i) /\ TLog[i].sid # tcall.sid
          /\ ~steps[TLog[i].sid].cache_output /\ ~steps[TLog[i].sid].save_output
          /\ ~WritesLater(i)


\* the names of the steps of the ancestor closure of the called step
ClosureNames == {TName(s) : s \in ClosureOf(steps, tcall.sid)}

\* the names of the steps that keep their files in the experiment directory
\* of the called step
NamesBeside == {TName(s) : s \in {x \in DOMAIN steps : steps[x].exp_dir = steps[tcall.sid].exp_dir}}

C34_CleanCacheFrame ==
    tcall.op = "clean_cache" =>
        /\ fsT = tcall.pre.T
        /\ fsOut = tcall.pre.Out
        /\ DOMAIN fsTmp \subseteq DOMAIN tcall.pre.Tmp
        /\ \A name \in DOMAIN fsTmp : fsTmp[name] = tcall.pre.Tmp[name]
        /\ \A name \in DOMAIN tcall.pre.Tmp :
              name \notin DOMAIN fsTmp <=>
                  IF engine = "steps" THEN name \in ClosureNames ELSE name \in NamesBeside

\* clean_cache of steps on a step left the cached output of a step outside
\* its closure, with artifacts in place
C34_Witness ==
    /\ tcall.op = "clean_cache" /\ engine = "steps"
    /\ fsT # EmptyDict
    /\ \E name \in DOMAIN tcall.pre.Tmp \ ClosureNames : name \in DOMAIN fsTmp


\* the ValueError of _cached_transform: no transformer cached
IsNotFitted(err) ==
    err.type = "ValueError" /\ err.msg # <<>> /\ err.msg[1] = "No transformer cached"

\* every step of the closure of step sid has its transformer artifact in T
ClosurePersisted(T, sid) ==
    \A s \in ClosureOf(steps, sid) : TName(s) \in DOMAIN T

\* C36: from an empty storage, when fit_transform on a step has returned,
\* every step of its closure has a transformer artifact; no call removes an
\* artifact; and transform on a step whose closure has its artifacts
\* returns a payload, straight after the fit_transform, after a clean_cache
\* and after any other calls
C36_FittedThenTransforms ==
    /\ (tcall.op = "fit_transform" /\ tcall.ok) =>
          /\ ClosurePersisted(fsT, tcall.sid)
          /\ \A d \in Datasets :
                /\ \A r \in {Transform(CallState, tcall.sid, Data(d))} :
                      r.ok /\ r.out # EmptyDict
                /\ \A r \in {Transform(CleanCache(CallState, tcall.sid), tcall.sid, Data(d))} :
                      r.ok /\ r.out # EmptyDict
    /\ DOMAIN tcall.pre.T \subseteq DOMAIN fsT
    /\ (tcall.op = "transform" /\ ClosurePersisted(tcall.pre.T, tcall.sid)) =>
          tcall.ok /\ ~IsNotFitted(tcall.err)


\* fit_transform on a step with input steps returned, on an empty storage,
\* and left the artifacts of the three or more steps of its closure
C36_Witness ==
    /\ tcall.op = "fit_transform" /\ tcall.ok
    /\ tcall.pre.T = EmptyDict /\ tcall.pre.Tmp = EmptyDict /\ tcall.pre.Out = EmptyDict
    /\ Cardinality(ClosureOf(steps, tcall.sid)) >= 3
    /\ ClosurePersisted(fsT, tcall.sid)


\* the steps of the closure of the called step whose transformer was an
\* ordinary transformer, not a Step, when the call was made
OrdinaryInClosure ==
    {s \in ClosureOf(tcall.pre.steps, tcall.sid) : tcall.pre.steps[s].transformer.kind = "obj"}

\* C37: a transform call, whether it returns or raises, has no transformer
\* fitted, and neither creates nor overwrites the transformer artifact of a
\* step of the closure whose transformer is an ordinary transformer
C37_TransformNeverFits ==
    tcall.op = "transform" =>
        /\ \A i \in 1..Len(TLog) : TLog[i].e \notin {"fit", "fit_transform", "save"}
        /\ \A s \in OrdinaryInClosure :
              /\ FileOf(fsT, TName(s)) = FileOf(tcall.pre.T, TName(s))
              /\ \A i \in 1..Len(TLog) : TLog[i].e = "copy" => TLog[i].sid # s

\* a transform call ran the transformers of two or more steps and then
\* raised, for a step that had no artifact, with artifacts in place
C37_Witness ==
    /\ tcall.op = "transform" /\ ~tcall.ok
    /\ IsNotFitted(tcall.err)
    /\ Cardinality({i \in 1..Len(TLog) : TLog[i].e = "transform"}) >= 2
    /\ Cardinality(OrdinaryInClosure) >= 3
    /\ fsT # EmptyDict


\* the names of the input data of the steps of the closure of the called step
ClosureInputData ==
    UNION {{steps[s].input_data[i] : i \in 1..Len(steps[s].input_data)} :
              s \in ClosureOf(steps, tcall.sid)}

\* the pairs (input step name or input data name, name of the step that
\* takes it) of the steps of the closure of the called step
ClosureEdges ==
    UNION {{<<TName(steps[s].input_steps[i]), TName(s)>> : i \in 1..Len(steps[s].input_steps)}
           \cup {<<steps[s].input_data[i], TName(s)>> : i \in 1..Len(steps[s].input_data)} :
              s \in ClosureOf(steps, tcall.sid)}

-----------------------------------------------------------------------------
(* Reading the last call of the graph engine.                              *)

GLog == mcall.log

IsRun == mcall.call.op = "run"

Requested == mcall.call.output_node_names \cup mcall.call.fit_node_names

\* run does not touch the wiring: the edges before the call are the edges
\* during it
Wired(u, v) == <<u, v>> \in DOMAIN mcall.pre.edges

\* the requested names and their ancestors: the least set of names with
\* the requested ones that has the source of every edge into it
ClosedUpstream(S) ==
    /\ Requested \subseteq S
    /\ \A u \in NodeNames, v \in S : Wired(u, v) => u \in S

ToRun ==
    CHOOSE S \in SUBSET NodeNames :
        ClosedUpstream(S) /\ \A T \in SUBSET NodeNames : ClosedUpstream(T) => S \subseteq T

\* how many times the run called the step of node n
Executions(n) == Cardinality({i \in 1..Len(GLog) : GLog[i].node = n})

\* the place of node n in the run
Place(n) == CHOOSE i \in 1..Len(GLog) : GLog[i].node = n

\* C4 as claimed: whatever the graph and the non-empty request, a node is
\* executed by run exactly when it is requested or an ancestor of a
\* requested node, and then exactly once
C4_AsClaimed ==
    (IsRun /\ Requested # {}) =>
        \A n \in DOMAIN graph.nodes :
            /\ Executions(n) <= 1
            /\ Executions(n) = 1 <=> n \in ToRun

\* C4 amended: a run of a non-empty request executes only nodes that are
\* requested or ancestors of a requested node, each at most once, and a run
\* that returns has executed every one of them exactly once
C4_ExecutesClosureOnce ==
    (IsRun /\ Requested # {}) =>
        \A n \in DOMAIN graph.nodes :
            /\ Executions(n) <= 1
            /\ Executions(n) = 1 => n \in ToRun
            /\ (mcall.ok /\ n \in ToRun) => Executions(n) = 1

\* a run that returned, of a fit target and an output with ancestors, in a
\* graph with a node that was not to run
C4_Witness ==
    /\ IsRun /\ mcall.ok
    /\ mcall.call.fit_node_names \ mcall.call.output_node_names # {}
    /\ ToRun \ Requested # {}
    /\ (DOMAIN graph.nodes) \ ToRun # {}
    /\ \A n \in ToRun : Executions(n) = 1

\* the graph is the diamond A -> B, A -> C, B -> D, C -> D
IsDiamond ==
    /\ DOMAIN mcall.pre.nodes = {"A", "B", "C", "D"}
    /\ DOMAIN mcall.pre.edges = {<<"A", "B">>, <<"A", "C">>, <<"B", "D">>, <<"C", "D">>}

\* the diamond of a pass-through loader and of transformers that get the
\* keys they read
IsWorkingDiamond ==
    /\ IsDiamond
    /\ \A n \in {"A", "B", "C", "D"} : "step" \in DOMAIN mcall.pre.nodes[n]
    /\ mcall.pre.nodes["A"].step = dl1

\* C5: a node is executed only after every source wired to it, by input
\* or by supervision wiring, was executed in the same run; on the diamond,
\* a run asked for D executes A once, then B and C, then D
C5_SourcesRunFirst ==
    IsRun =>
        /\ \A i \in 1..Len(GLog) : \A u \in NodeNames :
              Wired(u, GLog[i].node) => \E j \in 1..(i - 1) : GLog[j].node = u
        /\ (IsWorkingDiamond /\ "D" \in Requested /\ Requested \subseteq NodeNames) =>
              /\ mcall.ok
              /\ \A n \in {"A", "B", "C", "D"} : Executions(n) = 1
              /\ Place("A") < Place("B") /\ Place("A") < Place("C")
              /\ Place("B") < Place("D") /\ Place("C") < Place("D")

\* a run on the diamond whose edge C -> D is supervision wiring only, with
\* D fitted
C5_Witness ==
    /\ IsRun /\ mcall.ok /\ IsWorkingDiamond
    /\ "D" \in mcall.call.fit_node_names
    /\ "source_data_keys" \notin DOMAIN mcall.pre.edges[<<"C", "D">>]
    /\ Place("C") < Place("D")

\* the step registered under node n
StepAt(n) == mcall.pre.nodes[n].step

\* the payload the wiring `attr` of the edges into the node of the i-th
\* execution describes, read from what its sources returned in this run
WiredKeys(n, attr) ==
    {k \in {"X", "y"} : \E u \in NodeNames :
        /\ Wired(u, n)
        /\ attr \in DOMAIN mcall.pre.edges[<<u, n>>]
        /\ k \in DOMAIN mcall.pre.edges[<<u, n>>][attr]}

WiredSource(n, attr, k) ==
    CHOOSE u \in NodeNames :
        /\ Wired(u, n)
        /\ attr \in DOMAIN mcall.pre.edges[<<u, n>>]
        /\ k \in DOMAIN mcall.pre.edges[<<u, n>>][attr]

WiredPayload(n, attr) ==
    [k \in WiredKeys(n, attr) |->
        LET u == WiredSource(n, attr, k)
        IN  GLog[Place(u)].out[mcall.pre.edges[<<u, n>>][attr][k]]]

\* C6: run calls load_data(input_info) on a data loader, fit_transform on
\* a transformer named in fit_node_names and transform on any other; the
\* input payload is the one the input wiring describes, and only a
\* supervised transformer that is fitted gets a supervision payload, the
\* one the supervision wiring describes
C6_DispatchAndPayloads ==
    IsRun =>
        \A i \in 1..Len(GLog) :
            LET ev == GLog[i]
                fit == ev.node \in mcall.call.fit_node_names
            IN  IF StepAt(ev.node).base = "DataLoader"
                THEN /\ ev.op = "load_data"
                     /\ ev.input = InputInfo(mcall.call.d)
                     /\ ~ev.has_superv
                ELSE /\ ev.op = (IF fit THEN "fit_transform" ELSE "transform")
                     /\ ev.input = WiredPayload(ev.node, "source_data_keys")
                     /\ ev.has_superv <=> (fit /\ StepAt(ev.node).base = "SupervTransformer")
                     /\ ev.has_superv =>
                            ev.superv = WiredPayload(ev.node, "source_superv_keys")

\* a run that loads, fits a supervised transformer whose supervision
\* payload differs from its input payload, and transforms with another
\* supervised transformer
C6_Witness ==
    /\ IsRun /\ mcall.ok
    /\ \E i, j, k \in 1..Len(GLog) :
          /\ GLog[i].op = "load_data"
          /\ GLog[j].op = "fit_transform" /\ GLog[j].has_superv
          /\ GLog[j].superv # GLog[j].input
          /\ "y" \in DOMAIN GLog[j].superv
          /\ GLog[j].superv.y # GLog[j].input.y
          /\ GLog[k].op = "transform"
          /\ StepAt(GLog[k].node).base = "SupervTransformer"

\* whether this run got an output from node n
Produced(n) == \E i \in 1..Len(GLog) : GLog[i].node = n /\ GLog[i].ok

\* C7: after any run, also one that raised, every node of the graph has an
\* output slot, which holds what the node returned in this run, and None
\* when the node returned nothing in this run
C7_OutputsOfThisRunOnly ==
    IsRun =>
        \A n \in DOMAIN graph.nodes :
            /\ "output" \in DOMAIN graph.nodes[n]
            /\ graph.nodes[n].output =
                   (IF Produced(n) THEN GLog[Place(n)].out ELSE None)

\* a run that executed a part of the graph after a run that had left an
\* output in a node outside that part
C7_Witness ==
    /\ IsRun /\ mcall.ok
    /\ \E n \in DOMAIN mcall.pre.nodes :
          /\ "output" \in DOMAIN mcall.pre.nodes[n]
          /\ mcall.pre.nodes[n].output # None
          /\ ~Produced(n)
          /\ graph.nodes[n].output = None
    /\ \E n \in DOMAIN graph.nodes : Produced(n)

\* C8: a run that returns gives a mapping whose keys are exactly
\* output_node_names, each with the payload its node returned in this run
C8_ReturnsRequestedOutputs ==
    (IsRun /\ mcall.ok) =>
        /\ DOMAIN mcall.ret = mcall.call.output_node_names
        /\ \A n \in mcall.call.output_node_names :
              Produced(n) /\ mcall.ret[n] = GLog[Place(n)].out

\* a run that returned two outputs and had also executed a fit target and
\* an ancestor that are no outputs
C8_Witness ==
    /\ IsRun /\ mcall.ok
    /\ Cardinality(mcall.call.output_node_names) = 2
    /\ \E f \in mcall.call.fit_node_names, a \in NodeNames :
          /\ f \notin mcall.call.output_node_names /\ Produced(f)
          /\ a \notin Requested /\ Produced(a)
          /\ f \notin DOMAIN mcall.ret /\ a \notin DOMAIN mcall.ret

\* the last call was an add_* call with a node name the graph had already
IsAddOfExistingName ==
    /\ mcall.call.op \in {"add_dataloader", "add_superv", "add_unsuperv"}
    /\ mcall.call.node_name \in DOMAIN mcall.pre.nodes

\* the class of steps an add_* operation accepts
Accepts(op) ==
    IF op = "add_dataloader" THEN "DataLoader"
    ELSE IF op = "add_superv" THEN "SupervTransformer" ELSE "UnsupervTransformer"

\* the class of the step given to the last add_* call
GivenBase == (CHOOSE st \in {dl1, dl2, un1, sv1} : st.id = mcall.call.step).base

\* C10 as claimed: every add_* call with a name the graph has already
\* raises MilletNameException and leaves the graph as it was
C10_AsClaimed ==
    IsAddOfExistingName =>
        /\ ~mcall.ok /\ mcall.err.type = "MilletNameException"
        /\ graph = mcall.pre

\* C10 amended: an add_* call with a name the graph has already and a step
\* of the class the operation accepts raises MilletNameException; with a
\* step of another class it raises MilletTypeException; in both cases the
\* graph is left as it was
C10_DuplicateNameRejected ==
    IsAddOfExistingName =>
        /\ ~mcall.ok
        /\ mcall.err.type = (IF GivenBase = Accepts(mcall.call.op)
                             THEN "MilletNameException" ELSE "MilletTypeException")
        /\ graph = mcall.pre

\* an add_superv with wiring from other nodes, refused for the name of a
\* registered node that has a step and wiring of its own
C10_Witness ==
    /\ IsAddOfExistingName
    /\ mcall.call.op = "add_superv"
    /\ mcall.err.type = "MilletNameException"
    /\ "step" \in DOMAIN graph.nodes[mcall.call.node_name]
    /\ graph.nodes[mcall.call.node_name].step.id # mcall.call.step
    /\ \E e \in DOMAIN graph.edges : e[2] = mcall.call.node_name
    /\ graph = mcall.pre

\* the step given to the last add_* call
GivenStep == CHOOSE st \in {dl1, dl2, un1, sv1} : st.id = mcall.call.step

IsAdd == mcall.call.op \in {"add_dataloader", "add_superv", "add_unsuperv"}

\* C11: an add_* call with a step that is not of the class the operation
\* accepts raises MilletTypeException and leaves the graph as it was, no
\* node and no edge added; after an add_* call that returned, get_step of
\* the name gives the step that was registered
C11_TypeMismatchRejected ==
    IsAdd =>
        /\ GivenBase # Accepts(mcall.call.op) =>
              /\ ~mcall.ok
              /\ mcall.err.type = "MilletTypeException"
              /\ graph = mcall.pre
        /\ mcall.ok =>
              /\ mcall.call.node_name \in DOMAIN graph.nodes
              /\ "step" \in DOMAIN graph.nodes[mcall.call.node_name]
              /\ GetStep(graph, mcall.call.node_name) = GivenStep

\* an add_superv with wiring, given a data loader under a name the graph
\* does not have, refused on a graph that has nodes and edges
C11_Witness ==
    /\ mcall.call.op = "add_superv"
    /\ GivenBase = "DataLoader"
    /\ mcall.call.input_mapping # <<>>
    /\ mcall.call.node_name \notin DOMAIN mcall.pre.nodes
    /\ mcall.err.type = "MilletTypeException"
    /\ DOMAIN mcall.pre.edges # {}
    /\ graph = mcall.pre

-----------------------------------------------------------------------------
(* C23: cycles of the wiring graph.                                        *)

\* the nodes from which an edge leads to n or to a node that reaches n
OnCycle(g, n) == \E e \in DOMAIN g.edges : e[1] = n /\ e[2] \in Reaching(g, {n})

\* C23: whatever add_dataloader / add_superv / add_unsuperv calls were made,
\* no node of the wiring graph reaches itself, a node wired from itself
\* included, and no run finds the graph without a topological order
C23_WiringAcyclic ==
    /\ \A n \in DOMAIN graph.nodes : ~OnCycle(graph, n)
    /\ IsRun => mcall.err.type # "NetworkXUnfeasible"

-----------------------------------------------------------------------------
(* C24: the order in which run executes the nodes.                         *)

\* the nodes executed before the i-th execution of a log
Earlier(log, i) == {log[j].node : j \in 1..(i - 1)}

\* the nodes to run that were not executed before the i-th execution and
\* whose sources were all executed before it
ReadyAt(i) ==
    {n \in ToRun \ Earlier(GLog, i) : \A u \in NodeNames : Wired(u, n) => u \in Earlier(GLog, i)}

\* the sequence of the nodes a log shows as executed
NodeSequence(log) == [i \in 1..Len(log) |-> log[i].node]

\* C24: every node run executes is, when it is executed, the first in the
\* order of the names among the nodes to run that are not yet executed and
\* have all their sources executed; the same run made once more executes
\* the same sequence of nodes
C24_LeastReadyNodeNext ==
    IsRun =>
        /\ \A i \in 1..Len(GLog) :
              /\ GLog[i].node \in ReadyAt(i)
              /\ \A m \in ReadyAt(i) : NameRank(GLog[i].node) <= NameRank(m)
        /\ \A r \in {Run(graph, InputInfo(mcall.call.d), mcall.call.output_node_names,
                         mcall.call.fit_node_names)} :
              NodeSequence(r.log) = NodeSequence(GLog)

\* a run of the diamond that had B and C both ready after A, and executed
\* B, then C, then D
C24_Witness ==
    /\ IsRun /\ mcall.ok /\ IsWorkingDiamond
    /\ NodeSequence(GLog) = <<"A", "B", "C", "D">>
    /\ ReadyAt(2) = {"B", "C"}

-----------------------------------------------------------------------------
(* C25: what the add calls leave on the edges.                             *)

\* the last call added a transformer with its wiring
AddedWired == mcall.call.op \in {"add_unsuperv", "add_superv"} /\ mcall.ok

\* the items of a mapping that name source u
ItemsFrom(mapping, u) == {mapping[i] : i \in {j \in 1..Len(mapping) : mapping[j][2] = u}}

\* the dict an edge is to hold for the items declared from its source
DeclaredKeys(items) ==
    [k \in {it[1] : it \in items} |-> (CHOOSE it \in items : it[1] = k)[3]]

\* the edge e holds under attr exactly the keys of the items, and no dict
\* when there are no items
HoldsExactly(e, attr, items) ==
    IF items = {} THEN attr \notin DOMAIN graph.edges[e]
    ELSE /\ attr \in DOMAIN graph.edges[e]
         /\ graph.edges[e][attr] = DeclaredKeys(items)

\* C25: after a transformer was added, the edge from each source named by
\* its mappings holds every declared entry, key -> source key, of the input
\* mapping and of the supervision mapping, each under its own attribute and
\* nothing else; no edge is added from a source that is not named, and the
\* edges there were are as they were
C25_WiringAdditive ==
    AddedWired =>
        /\ \A u \in NodeNames :
              \A e \in {<<u, mcall.call.node_name>>} :
                 LET ins == ItemsFrom(mcall.call.input_mapping, u)
                     sups == ItemsFrom(mcall.call.superv_mapping, u)
                 IN  IF ins = {} /\ sups = {}
                     THEN e \notin DOMAIN graph.edges
                     ELSE /\ e \in DOMAIN graph.edges
                          /\ HoldsExactly(e, "source_data_keys", ins)
                          /\ HoldsExactly(e, "source_superv_keys", sups)
        /\ \A e \in DOMAIN mcall.pre.edges :
              e \in DOMAIN graph.edges /\ graph.edges[e] = mcall.pre.edges[e]

\* D was added with two input keys from B and two supervision keys from C,
\* in a graph whose edge from A to C holds two input keys and a supervision
\* key
C25_Witness ==
    /\ AddedWired
    /\ mcall.call.node_name = "D"
    /\ mcall.call.op = "add_superv"
    /\ <<"A", "C">> \in DOMAIN mcall.pre.edges
    /\ DOMAIN graph.edges[<<"A", "C">>].source_data_keys = {"X", "y"}
    /\ DOMAIN graph.edges[<<"A", "C">>].source_superv_keys = {"y"}
    /\ DOMAIN graph.edges[<<"B", "D">>].source_data_keys = {"X", "y"}
    /\ DOMAIN graph.edges[<<"C", "D">>].source_superv_keys = {"X", "y"}

-----------------------------------------------------------------------------
\* C26: run with no output names and no fit names returns without error,
\* has executed no node, and returns the empty mapping
C26_EmptyRequestReturnsEmpty ==
    (IsRun /\ Requested = {}) =>
        /\ mcall.ok
        /\ GLog = <<>>
        /\ mcall.ret = EmptyDict


-----------------------------------------------------------------------------
(* C35: the nodes of the graph are the registered ones.                    *)

\* the names of graph g that were registered: their node has a step and
\* an output slot
Registered(g) ==
    {n \in DOMAIN g.nodes : "step" \in DOMAIN g.nodes[n] /\ "output" \in DOMAIN g.nodes[n]}

\* C35: whatever add_* calls were made, every node of the graph has a step
\* and an output slot; no run ends because a node has no step; and an add_*
\* call with a step of the accepted class is refused for its name only when
\* the name was registered before
C35_EveryNodeRegistered ==
    /\ DOMAIN graph.nodes = Registered(graph)
    /\ IsRun => mcall.err.type # "KeyError"
    /\ (IsAdd /\ GivenBase = Accepts(mcall.call.op)
              /\ mcall.call.node_name \notin Registered(mcall.pre)) =>
           mcall.err.type # "MilletNameException"


-----------------------------------------------------------------------------
(* C38: what run leaves alone.                                             *)

\* the step registered under name n in graph g, if there is one
StepOf(g, n) == IF "step" \in DOMAIN g.nodes[n] THEN <<g.nodes[n].step>> ELSE <<>>

\* C38: a run, returning or raising, leaves the graph with the nodes, the
\* step of every node, the edges and the wiring of every edge that it had
\* before the run; output slots are all it changes
C38_RunKeepsStructure ==
    IsRun =>
        /\ DOMAIN graph.nodes = DOMAIN mcall.pre.nodes
        /\ \A n \in DOMAIN graph.nodes : StepOf(graph, n) = StepOf(mcall.pre, n)
        /\ \A n \in DOMAIN graph.nodes :
              DOMAIN graph.nodes[n] \ {"output"} = DOMAIN mcall.pre.nodes[n] \ {"output"}
        /\ graph.edges = mcall.pre.edges

\* a run on a graph with input and supervision wiring executed nodes, set
\* their output slots and then raised
C38_Witness ==
    /\ IsRun /\ ~mcall.ok
    /\ GLog # <<>>
    /\ graph.nodes # mcall.pre.nodes
    /\ \E e \in DOMAIN graph.edges : "source_superv_keys" \in DOMAIN graph.edges[e]

====
